---- MODULE Spec2Model ----
(***************************************************************************)
(* State-machine model of libhidtelephony's TelephonyDeviceManager        *)
(* (src/src/lib/hid_telephony.ts, lines 1-395) together with the pure     *)
(* helpers of src/src/lib/hid.ts and the subscriber callbacks of the test *)
(* application (src/unnamed/part_000).                                    *)
(*                                                                         *)
(* An optional JavaScript value (T | undefined) is modelled as a sequence *)
(* of length at most one: <<>> is undefined and <<v>> is the value v.     *)
(***************************************************************************)
EXTENDS Integers, Sequences, FiniteSets, TLC

(***************************************************************************)
(* Bounds of the model.                                                    *)
(***************************************************************************)
MaxSubs == 2
MaxWrites == 2
MaxPending == 2
MaxDataLen == 2
MaxCalls == 2

(***************************************************************************)
(* hid.ts: usage pages, usage ids, control types.                          *)
(***************************************************************************)
LED == 8
TELEPHONY == 11
HOOK_SWITCH == 32
PHONE_MUTE == 47
RINGER == 158
MUTE == 9
OFF_HOOK == 23
RING == 24

OnOffControlType == {"Undefined", "OnOffButtons", "ToggleButton", "ToggleSwitch"}

Undef == <<>>
Def(v) == <<v>>
IsUndef(x) == x = <<>>
Val(x) == x[1]

\* A usage is an unsigned 32-bit value v. The values from 2^31 on are held
\* as v - 2^32, the signed reading of the same 32 bits.

\* usage & 0xffff: the low 16 bits of the word
getUsageId(usage) == usage % 65536

\* mutant of getUsagePage: usage >> 16, the shift that keeps the sign
getUsagePageSigned(usage) == usage \div 65536

\* usage >>> 16: the high 16 bits of the word, read as unsigned
getUsagePage(usage) == (usage \div 65536) % 65536

\* the combined 32-bit usage field of a (page, id) pair, as a descriptor carries it
Usage(page, id) == (IF page >= 32768 THEN page - 65536 ELSE page) * 65536 + id

\* mutant of getOnOffControlType: the buttons row does not look at logicalMinimum
getOnOffControlTypeAnyMinimum(item) ==
  IF \/ IsUndef(item.isAbsolute)
     \/ IsUndef(item.hasPreferredState)
     \/ IsUndef(item.logicalMinimum)
     \/ IsUndef(item.logicalMaximum)
  THEN "Undefined"
  ELSE IF /\ ~Val(item.isAbsolute)
          /\ ~Val(item.hasPreferredState)
          /\ Val(item.logicalMaximum) = 1
  THEN "OnOffButtons"
  ELSE IF /\ ~Val(item.isAbsolute)
          /\ Val(item.hasPreferredState)
          /\ Val(item.logicalMinimum) = 0
          /\ Val(item.logicalMaximum) = 1
  THEN "ToggleButton"
  ELSE IF /\ Val(item.isAbsolute)
          /\ ~Val(item.hasPreferredState)
          /\ Val(item.logicalMinimum) = 0
          /\ Val(item.logicalMaximum) = 1
  THEN "ToggleSwitch"
  ELSE "Undefined"

getOnOffControlType(item) ==
  IF \/ IsUndef(item.isAbsolute)
     \/ IsUndef(item.hasPreferredState)
     \/ IsUndef(item.logicalMinimum)
     \/ IsUndef(item.logicalMaximum)
  THEN "Undefined"
  ELSE IF /\ ~Val(item.isAbsolute)
          /\ ~Val(item.hasPreferredState)
          /\ Val(item.logicalMinimum) = -1
          /\ Val(item.logicalMaximum) = 1
  THEN "OnOffButtons"
  ELSE IF /\ ~Val(item.isAbsolute)
          /\ Val(item.hasPreferredState)
          /\ Val(item.logicalMinimum) = 0
          /\ Val(item.logicalMaximum) = 1
  THEN "ToggleButton"
  ELSE IF /\ Val(item.isAbsolute)
          /\ ~Val(item.hasPreferredState)
          /\ Val(item.logicalMinimum) = 0
          /\ Val(item.logicalMaximum) = 1
  THEN "ToggleSwitch"
  ELSE "Undefined"

(***************************************************************************)
(* hid_telephony.ts: the curated usage lists, in their declared order.     *)
(***************************************************************************)
\* mutant of INPUT_USAGES: the two usages are listed the other way round
INPUT_USAGES_MuteFirst == <<PHONE_MUTE, HOOK_SWITCH>>

INPUT_USAGES == <<HOOK_SWITCH, PHONE_MUTE>>

OUTPUT_USAGES == <<OFF_HOOK, RING, MUTE, RINGER>>

InputUsage == {INPUT_USAGES[k] : k \in 1..Len(INPUT_USAGES)}

OutputUsage == {OUTPUT_USAGES[k] : k \in 1..Len(OUTPUT_USAGES)}

isTelephonyInputUsage(x) == x \in InputUsage

isTelephonyOutputUsage(x) == x \in OutputUsage

(***************************************************************************)
(* Descriptor parsing (parseDeviceDescriptors and its two helpers).        *)
(***************************************************************************)
\* mutant of parseInputUsages: an entry that exists is not overwritten
RECURSIVE parseInputUsagesFirstWins(_, _, _, _, _)
parseInputUsagesFirstWins(infos, reportId, item, offset, i) ==
  IF i > Len(Val(item.usages)) THEN infos
  ELSE LET usage == Val(item.usages)[i]
           usageId == getUsageId(usage)
           next == IF /\ getUsagePage(usage) = TELEPHONY
                      /\ isTelephonyInputUsage(usageId)
                      /\ IsUndef(infos[usageId])
                   THEN [infos EXCEPT ![usageId] =
                           Def([reportId |-> reportId,
                                offset |-> offset + (i - 1) * Val(item.reportSize),
                                controlType |-> getOnOffControlType(item)])]
                   ELSE infos
       IN parseInputUsagesFirstWins(next, reportId, item, offset, i + 1)

\* mutant of parseInputUsages: the usage page of a usage is not looked at
RECURSIVE parseInputUsagesAnyPage(_, _, _, _, _)
parseInputUsagesAnyPage(infos, reportId, item, offset, i) ==
  IF i > Len(Val(item.usages)) THEN infos
  ELSE LET usage == Val(item.usages)[i]
           usageId == getUsageId(usage)
           next == IF isTelephonyInputUsage(usageId)
                   THEN [infos EXCEPT ![usageId] =
                           Def([reportId |-> reportId,
                                offset |-> offset + (i - 1) * Val(item.reportSize),
                                controlType |-> getOnOffControlType(item)])]
                   ELSE infos
       IN parseInputUsagesAnyPage(next, reportId, item, offset, i + 1)

RECURSIVE parseInputUsages(_, _, _, _, _)
parseInputUsages(infos, reportId, item, offset, i) ==
  IF i > Len(Val(item.usages)) THEN infos
  ELSE LET usage == Val(item.usages)[i]
           usageId == getUsageId(usage)
           next == IF /\ getUsagePage(usage) = TELEPHONY
                      /\ isTelephonyInputUsage(usageId)
                   THEN [infos EXCEPT ![usageId] =
                           Def([reportId |-> reportId,
                                offset |-> offset + (i - 1) * Val(item.reportSize),
                                controlType |-> getOnOffControlType(item)])]
                   ELSE infos
       IN parseInputUsages(next, reportId, item, offset, i + 1)

RECURSIVE parseInputItems(_, _, _, _, _)
parseInputItems(infos, reportId, items, k, offset) ==
  IF k > Len(items) THEN infos
  ELSE LET item == items[k]
       IN IF \/ IsUndef(item.usages)
             \/ IsUndef(item.reportSize)
             \/ IsUndef(item.reportCount)
             \/ IsUndef(item.isAbsolute)
          THEN parseInputItems(infos, reportId, items, k + 1, offset)
          ELSE parseInputItems(
                 parseInputUsages(infos, reportId, item, offset, 1),
                 reportId, items, k + 1,
                 offset + Val(item.reportCount) * Val(item.reportSize))

RECURSIVE parseInputReport(_, _, _)
parseInputReport(infos, inputReports, r) ==
  IF r > Len(inputReports) THEN infos
  ELSE LET report == inputReports[r]
       IN IF IsUndef(report.items) \/ IsUndef(report.reportId)
          THEN parseInputReport(infos, inputReports, r + 1)
          ELSE parseInputReport(
                 parseInputItems(infos, Val(report.reportId), Val(report.items), 1, 0),
                 inputReports, r + 1)

\* the [usageId, offset] pairs one item contributes to outUsageOffsets
RECURSIVE parseOutputUsages(_, _, _, _)
parseOutputUsages(pairs, item, offset, i) ==
  IF i > Len(Val(item.usages)) THEN pairs
  ELSE LET usage == Val(item.usages)[i]
           usagePage == getUsagePage(usage)
           usageId == getUsageId(usage)
           next == IF /\ (usagePage = TELEPHONY \/ usagePage = LED)
                      /\ isTelephonyOutputUsage(usageId)
                   THEN Append(pairs, <<usageId, offset + (i - 1) * Val(item.reportSize)>>)
                   ELSE pairs
       IN parseOutputUsages(next, item, offset, i + 1)

\* mutant of parseOutputItems: an item lacking an attribute ends the walk but
\* the pairs collected before it are kept
RECURSIVE parseOutputItemsKeepsPairs(_, _, _, _)
parseOutputItemsKeepsPairs(pairs, items, k, offset) ==
  IF k > Len(items) THEN [outUsageOffsets |-> pairs, length |-> offset]
  ELSE LET item == items[k]
       IN IF \/ IsUndef(item.usages)
             \/ IsUndef(item.reportSize)
             \/ IsUndef(item.reportCount)
          THEN [outUsageOffsets |-> pairs, length |-> offset]
          ELSE parseOutputItemsKeepsPairs(
                 parseOutputUsages(pairs, item, offset, 1),
                 items, k + 1,
                 offset + Val(item.reportCount) * Val(item.reportSize))

\* the item loop of one output report: the collected pairs and the final cursor
RECURSIVE parseOutputItems(_, _, _, _)
parseOutputItems(pairs, items, k, offset) ==
  IF k > Len(items) THEN [outUsageOffsets |-> pairs, length |-> offset]
  ELSE LET item == items[k]
       IN IF \/ IsUndef(item.usages)
             \/ IsUndef(item.reportSize)
             \/ IsUndef(item.reportCount)
          THEN [outUsageOffsets |-> <<>>, length |-> offset]
          ELSE parseOutputItems(
                 parseOutputUsages(pairs, item, offset, 1),
                 items, k + 1,
                 offset + Val(item.reportCount) * Val(item.reportSize))

\* mutant of registerOutputs: an entry carries the bits walked up to and
\* including its own usage instead of the length of the report
RECURSIVE registerOutputsOwnLength(_, _, _, _, _)
registerOutputsOwnLength(infos, reportId, pairs, length, p) ==
  IF p > Len(pairs) THEN infos
  ELSE registerOutputsOwnLength(
         [infos EXCEPT ![pairs[p][1]] =
            Def([reportId |-> reportId, state |-> FALSE,
                 offset |-> pairs[p][2], length |-> pairs[p][2] + 1])],
         reportId, pairs, length, p + 1)

RECURSIVE registerOutputs(_, _, _, _, _)
registerOutputs(infos, reportId, pairs, length, p) ==
  IF p > Len(pairs) THEN infos
  ELSE registerOutputs(
         [infos EXCEPT ![pairs[p][1]] =
            Def([reportId |-> reportId, state |-> FALSE,
                 offset |-> pairs[p][2], length |-> length])],
         reportId, pairs, length, p + 1)

RECURSIVE parseOutputReport(_, _, _)
parseOutputReport(infos, outputReports, r) ==
  IF r > Len(outputReports) THEN infos
  ELSE LET report == outputReports[r]
       IN IF IsUndef(report.items) \/ IsUndef(report.reportId)
          THEN parseOutputReport(infos, outputReports, r + 1)
          ELSE LET walk == parseOutputItems(<<>>, Val(report.items), 1, 0)
               IN parseOutputReport(
                    registerOutputs(infos, Val(report.reportId),
                                    walk.outUsageOffsets, walk.length, 1),
                    outputReports, r + 1)

\* Array.prototype.find: the first collection of the TELEPHONY usage page
\* mutant of findTelephonyCollection: the last collection of the TELEPHONY
\* usage page is taken
RECURSIVE findLastTelephonyCollection(_, _)
findLastTelephonyCollection(colls, c) ==
  IF c > Len(colls) THEN Undef
  ELSE LET later == findLastTelephonyCollection(colls, c + 1)
       IN IF ~IsUndef(later) THEN later
          ELSE IF colls[c].usagePage = TELEPHONY THEN Def(colls[c])
          ELSE Undef

RECURSIVE findTelephonyCollection(_, _)
findTelephonyCollection(colls, c) ==
  IF c > Len(colls) THEN Undef
  ELSE IF colls[c].usagePage = TELEPHONY THEN Def(colls[c])
  ELSE findTelephonyCollection(colls, c + 1)

NoInputInfos == [u \in InputUsage |-> Undef]

NoOutputInfos == [u \in OutputUsage |-> Undef]

\* parseDeviceDescriptors is an async method called without await: its two
\* throws reject the returned promise and the constructor carries on with
\* the tables as the reduce() calls initialised them.
parseDeviceDescriptors(deviceCollections) ==
  IF IsUndef(deviceCollections)
  THEN [inputEventInfos |-> NoInputInfos, outputEventInfos |-> NoOutputInfos,
        rejected |-> TRUE]
  ELSE LET telephonyCollection == findTelephonyCollection(Val(deviceCollections), 1)
       IN IF IsUndef(telephonyCollection)
          THEN [inputEventInfos |-> NoInputInfos, outputEventInfos |-> NoOutputInfos,
                rejected |-> TRUE]
          ELSE LET coll == Val(telephonyCollection)
               IN [inputEventInfos |->
                     IF IsUndef(coll.inputReports) THEN NoInputInfos
                     ELSE parseInputReport(NoInputInfos, Val(coll.inputReports), 1),
                   outputEventInfos |->
                     IF IsUndef(coll.outputReports) THEN NoOutputInfos
                     ELSE parseOutputReport(NoOutputInfos, Val(coll.outputReports), 1),
                   rejected |-> FALSE]

(***************************************************************************)
(* Report buffers: a Uint8Array is a sequence of bytes, index 0 first.     *)
(***************************************************************************)
RECURSIVE Pow2(_)
Pow2(n) == IF n = 0 THEN 1 ELSE 2 * Pow2(n - 1)

\* (byte & (0x01 << bitPosition)) !== 0
BitIsSet(byte, bitPosition) == (byte \div Pow2(bitPosition)) % 2 = 1

\* byte | mask, for a mask that is zero or a single bit
BitOr(byte, bitPosition, bit) ==
  IF bit = 0 \/ BitIsSet(byte, bitPosition) THEN byte ELSE byte + Pow2(bitPosition)

\* a zero-filled Uint8Array of n bytes
RECURSIVE Zeros(_)
Zeros(n) == IF n = 0 THEN <<>> ELSE Append(Zeros(n - 1), 0)

\* new Uint8Array(length / 8): the length is truncated to an integer
generator(info) ==
  [reportId |-> info.reportId, data |-> Zeros(info.length \div 8)]

\* mutant of setter: the bits of a byte are numbered from its high end
setterMsbFirst(info, val, data) ==
  IF info.offset >= 0
  THEN LET byteIndex == info.offset \div 8
           bitPosition == 7 - (info.offset % 8)
       IN IF byteIndex >= Len(data) THEN data
          ELSE [data EXCEPT ![byteIndex + 1] =
                  BitOr(@, bitPosition, IF val THEN 1 ELSE 0)]
  ELSE data

\* mutant of setter: the byte is assigned the mask instead of being or-ed with it
setterAssign(info, val, data) ==
  IF info.offset >= 0
  THEN LET byteIndex == info.offset \div 8
           bitPosition == info.offset % 8
       IN IF byteIndex >= Len(data) THEN data
          ELSE [data EXCEPT ![byteIndex + 1] = IF val THEN Pow2(bitPosition) ELSE 0]
  ELSE data

\* data[byteIndex] |= (val ? 1 : 0) << bitPosition; a store beyond the end
\* of a typed array is ignored
setter(info, val, data) ==
  IF info.offset >= 0
  THEN LET byteIndex == info.offset \div 8
           bitPosition == info.offset % 8
       IN IF byteIndex >= Len(data) THEN data
          ELSE [data EXCEPT ![byteIndex + 1] =
                  BitOr(@, bitPosition, IF val THEN 1 ELSE 0)]
  ELSE data

(***************************************************************************)
(* The manager's mutable state, threaded through a handler as a record:    *)
(*   out     outputEventInfos                                              *)
(*   cbs     inputEventObserverCallbacks                                   *)
(*   sent    the sendReport calls made so far by the running handler       *)
(*   invoked the callback invocations made so far by the running handler   *)
(*   threw   the handler ended with an exception                           *)
(***************************************************************************)
\* mutant of HasReport: the report of an id already touched is never found
HasReportNever(reports, reportId) == FALSE

\* Array.prototype.find on outputReports by report id
HasReport(reports, reportId) ==
  \E n \in 1..Len(reports) : reports[n].reportId = reportId

\* mutant of sendCollect: the report is created but eventInfo.state keeps its value
RECURSIVE sendCollectNoStore(_, _, _, _)
sendCollectNoStore(out, usages, k, outputReports) ==
  IF k > Len(usages) THEN [out |-> out, outputReports |-> outputReports]
  ELSE LET eventInfo == out[usages[k][1]]
       IN IF IsUndef(eventInfo)
          THEN sendCollectNoStore(out, usages, k + 1, outputReports)
          ELSE sendCollectNoStore(out, usages, k + 1,
                 IF \E n \in 1..Len(outputReports) :
                      outputReports[n].reportId = Val(eventInfo).reportId
                 THEN outputReports
                 ELSE Append(outputReports,
                        [reportId |-> Val(eventInfo).reportId,
                         data |-> Zeros(Val(eventInfo).length \div 8)]))

\* mutant of sendCollect: a usage without an entry ends the loop
RECURSIVE sendCollectStopsAtUnsupported(_, _, _, _)
sendCollectStopsAtUnsupported(out, usages, k, outputReports) ==
  IF k > Len(usages) THEN [out |-> out, outputReports |-> outputReports]
  ELSE LET usage == usages[k][1]
           val == usages[k][2]
           eventInfo == out[usage]
       IN IF IsUndef(eventInfo)
          THEN [out |-> out, outputReports |-> outputReports]
          ELSE sendCollectStopsAtUnsupported(
                 [out EXCEPT ![usage] = Def([Val(eventInfo) EXCEPT !.state = val])],
                 usages, k + 1,
                 IF HasReport(outputReports, Val(eventInfo).reportId)
                 THEN outputReports
                 ELSE Append(outputReports, generator(Val(eventInfo))))

\* mutant of sendCollect: a report is created only for a usage whose cached
\* state differs from the value given
RECURSIVE sendCollectOnChange(_, _, _, _)
sendCollectOnChange(out, usages, k, outputReports) ==
  IF k > Len(usages) THEN [out |-> out, outputReports |-> outputReports]
  ELSE LET usage == usages[k][1]
           val == usages[k][2]
           eventInfo == out[usage]
       IN IF IsUndef(eventInfo)
          THEN sendCollectOnChange(out, usages, k + 1, outputReports)
          ELSE sendCollectOnChange(
                 [out EXCEPT ![usage] = Def([Val(eventInfo) EXCEPT !.state = val])],
                 usages, k + 1,
                 IF \/ HasReport(outputReports, Val(eventInfo).reportId)
                    \/ Val(eventInfo).state = val
                 THEN outputReports
                 ELSE Append(outputReports, generator(Val(eventInfo))))

\* the first loop of send: one empty report per touched id, cache updated
RECURSIVE sendCollect(_, _, _, _)
sendCollect(out, usages, k, outputReports) ==
  IF k > Len(usages) THEN [out |-> out, outputReports |-> outputReports]
  ELSE LET usage == usages[k][1]
           val == usages[k][2]
           eventInfo == out[usage]
       IN IF IsUndef(eventInfo)
          THEN sendCollect(out, usages, k + 1, outputReports)
          ELSE sendCollect(
                 [out EXCEPT ![usage] = Def([Val(eventInfo) EXCEPT !.state = val])],
                 usages, k + 1,
                 IF HasReport(outputReports, Val(eventInfo).reportId)
                 THEN outputReports
                 ELSE Append(outputReports, generator(Val(eventInfo))))

\* OUTPUT_USAGES.forEach over one report: every cached-true usage of the id
RECURSIVE sendFill(_, _, _)
sendFill(out, report, u) ==
  IF u > Len(OUTPUT_USAGES) THEN report
  ELSE LET eventInfo == out[OUTPUT_USAGES[u]]
       IN IF \/ IsUndef(eventInfo)
             \/ Val(eventInfo).reportId # report.reportId
             \/ ~Val(eventInfo).state
          THEN sendFill(out, report, u + 1)
          ELSE sendFill(out,
                 [report EXCEPT !.data =
                    setter(Val(eventInfo), Val(eventInfo).state, report.data)],
                 u + 1)

\* mutant of sendEmit: the reports are handed to the device last one first
RECURSIVE sendEmitBackwards(_, _, _, _)
sendEmitBackwards(out, outputReports, n, sent) ==
  IF n > Len(outputReports) THEN sent
  ELSE sendEmitBackwards(out, outputReports, n + 1,
         Append(sent, sendFill(out, outputReports[Len(outputReports) + 1 - n], 1)))

\* outputReports.forEach: fill each report and hand it to device.sendReport
RECURSIVE sendEmit(_, _, _, _)
sendEmit(out, outputReports, n, sent) ==
  IF n > Len(outputReports) THEN sent
  ELSE sendEmit(out, outputReports, n + 1,
                Append(sent, sendFill(out, outputReports[n], 1)))

\* mutant of send: the guard on device.opened is missing
sendWhileClosed(st, deviceOpened, usages) ==
  LET collected == sendCollect(st.out, usages, 1, <<>>)
  IN [st EXCEPT !.out = collected.out,
                !.sent = sendEmit(collected.out, collected.outputReports, 1, st.sent)]

\* mutant of send: the guard on device.opened sits after the cache update
sendCachingWhileClosed(st, deviceOpened, usages) ==
  LET collected == sendCollect(st.out, usages, 1, <<>>)
  IN IF ~deviceOpened THEN [st EXCEPT !.out = collected.out]
     ELSE [st EXCEPT !.out = collected.out,
                     !.sent = sendEmit(collected.out, collected.outputReports, 1, st.sent)]

send(st, deviceOpened, usages) ==
  IF ~deviceOpened THEN st
  ELSE LET collected == sendCollect(st.out, usages, 1, <<>>)
       IN [st EXCEPT !.out = collected.out,
                     !.sent = sendEmit(collected.out, collected.outputReports, 1, st.sent)]

\* mutant of setState: a usage without an entry gets one
setStateCreatesEntry(st, deviceOpened, usage, val) ==
  IF ~deviceOpened THEN st
  ELSE IF IsUndef(st.out[usage])
  THEN [st EXCEPT !.out[usage] =
          Def([reportId |-> 0, state |-> val, offset |-> 0, length |-> 0])]
  ELSE [st EXCEPT !.out[usage] = Def([Val(st.out[usage]) EXCEPT !.state = val])]

\* mutant of setState: the guard on device.opened is missing
setStateWhileClosed(st, deviceOpened, usage, val) ==
  IF IsUndef(st.out[usage]) THEN st
  ELSE [st EXCEPT !.out[usage] = Def([Val(st.out[usage]) EXCEPT !.state = val])]

setState(st, deviceOpened, usage, val) ==
  IF ~deviceOpened THEN st
  ELSE IF IsUndef(st.out[usage]) THEN st
  ELSE [st EXCEPT !.out[usage] = Def([Val(st.out[usage]) EXCEPT !.state = val])]

\* mutant of getState: the cached state is returned whether or not the device is open
getStateWhileClosed(out, deviceOpened, usage) ==
  IF IsUndef(out[usage]) THEN Undef ELSE Def(Val(out[usage]).state)

getState(out, deviceOpened, usage) ==
  IF ~deviceOpened THEN Undef
  ELSE IF IsUndef(out[usage]) THEN Undef
  ELSE Def(Val(out[usage]).state)

supportInput(infos, usage) == ~IsUndef(infos[usage])

\* this.inputEventInfos[usage]?.controlType, or undefined
getControlType(infos, usage) ==
  IF supportInput(infos, usage) THEN Def(Val(infos[usage]).controlType) ELSE Undef

supportOutput(out, usage) == ~IsUndef(out[usage])

\* Array.prototype.indexOf, 1-based; 0 stands for -1
indexOf(list, callback) ==
  IF \E j \in 1..Len(list) : list[j] = callback
  THEN CHOOSE j \in 1..Len(list) :
         /\ list[j] = callback
         /\ \A h \in 1..(j - 1) : list[h] # callback
  ELSE 0

\* Array.prototype.splice(index, 1)
splice(list, index) ==
  SubSeq(list, 1, index - 1) \o SubSeq(list, index + 1, Len(list))

subscribe(st, usage, callback) ==
  [st EXCEPT !.cbs[usage] = Append(@, callback)]

\* mutant of unsubscribe: the callback is found but the list keeps it
unsubscribeKeeps(st, usage, callback) == st

\* mutant of unsubscribe: the test for -1 is missing, and splice(-1, 1)
\* removes the last element of the list
unsubscribeSpliceMinusOne(st, usage, callback) ==
  LET callbackIndex == indexOf(st.cbs[usage], callback)
  IN IF callbackIndex = 0
     THEN [st EXCEPT !.cbs[usage] = SubSeq(@, 1, Len(@) - 1)]
     ELSE [st EXCEPT !.cbs[usage] = splice(@, callbackIndex)]

unsubscribe(st, usage, callback) ==
  LET callbackIndex == indexOf(st.cbs[usage], callback)
  IN IF callbackIndex = 0 THEN st
     ELSE [st EXCEPT !.cbs[usage] = splice(@, callbackIndex)]

(***************************************************************************)
(* The subscriber callbacks of the test application.                       *)
(***************************************************************************)
Callbacks == {"logInput", "waitForHookSwitch", "waitForHangUp"}

waitForHookSwitch(st, deviceOpened, val, type) ==
  IF ~val \/ (type # "ToggleSwitch" /\ type # "ToggleButton") THEN st
  ELSE send(unsubscribe(st, HOOK_SWITCH, "waitForHookSwitch"), deviceOpened,
            << <<OFF_HOOK, TRUE>>, <<RING, FALSE>> >>)

waitForHangUp(st, val, type) ==
  IF type = "ToggleButton" /\ val
  THEN unsubscribe(st, HOOK_SWITCH, "waitForHangUp")
  ELSE IF type = "ToggleSwitch" /\ ~val
  THEN unsubscribe(st, HOOK_SWITCH, "waitForHangUp")
  ELSE st

\* a subscriber of a client that registers its logger from inside the
\* callback: manager.subscribe(HOOK_SWITCH, logInput), unless the client has
\* the logger registered there
subscribeLogInput(st, val, type) ==
  IF indexOf(st.cbs[HOOK_SWITCH], "logInput") = 0
  THEN subscribe(st, HOOK_SWITCH, "logInput")
  ELSE st

\* the callbacks a client may hand to subscribe
ClientCallbacks == Callbacks \cup {"subscribeLogInput"}

\* callback(isSet, eventInfo.controlType)
invoke(st, deviceOpened, usage, callback, val, type) ==
  LET called == [st EXCEPT !.invoked =
                   Append(@, [usage |-> usage, callback |-> callback,
                              val |-> val, controlType |-> type])]
  IN CASE callback = "waitForHookSwitch" ->
            waitForHookSwitch(called, deviceOpened, val, type)
       [] callback = "waitForHangUp" -> waitForHangUp(called, val, type)
       [] callback = "subscribeLogInput" -> subscribeLogInput(called, val, type)
       [] OTHER -> called

\* mutant of dispatchCallbacks: the list is walked from its end
RECURSIVE dispatchCallbacksBackwards(_, _, _, _, _, _)
dispatchCallbacksBackwards(st, deviceOpened, usage, j, isSet, type) ==
  IF j > Len(st.cbs[usage]) THEN st
  ELSE dispatchCallbacksBackwards(
         invoke(st, deviceOpened, usage,
                st.cbs[usage][Len(st.cbs[usage]) + 1 - j], isSet, type),
         deviceOpened, usage, j + 1, isSet, type)

\* for (const callback of this.inputEventObserverCallbacks[usage]): the
\* array iterator reads the live array, index by index
RECURSIVE dispatchCallbacks(_, _, _, _, _, _)
dispatchCallbacks(st, deviceOpened, usage, j, isSet, type) ==
  IF j > Len(st.cbs[usage]) THEN st
  ELSE dispatchCallbacks(
         invoke(st, deviceOpened, usage, st.cbs[usage][j], isSet, type),
         deviceOpened, usage, j + 1, isSet, type)

\* mutant of onInputReport: the report id of the event is not compared
RECURSIVE onInputReportAnyId(_, _, _, _, _)
onInputReportAnyId(st, deviceOpened, infos, event, k) ==
  IF k > Len(INPUT_USAGES) THEN st
  ELSE LET usage == INPUT_USAGES[k]
           eventInfo == infos[usage]
       IN IF IsUndef(eventInfo)
          THEN onInputReportAnyId(st, deviceOpened, infos, event, k + 1)
          ELSE LET byteIndex == Val(eventInfo).offset \div 8
                   bitPosition == Val(eventInfo).offset % 8
               IN IF byteIndex >= Len(event.data)
                  THEN [st EXCEPT !.threw = TRUE]
                  ELSE onInputReportAnyId(
                         dispatchCallbacks(st, deviceOpened, usage, 1,
                           BitIsSet(event.data[byteIndex + 1], bitPosition),
                           Val(eventInfo).controlType),
                         deviceOpened, infos, event, k + 1)

\* for (const usage of INPUT_USAGES); DataView.getUint8 throws a RangeError
\* for a byte index outside the event data
RECURSIVE onInputReport(_, _, _, _, _)
onInputReport(st, deviceOpened, infos, event, k) ==
  IF k > Len(INPUT_USAGES) THEN st
  ELSE LET usage == INPUT_USAGES[k]
           eventInfo == infos[usage]
       IN IF IsUndef(eventInfo) \/ event.reportId # Val(eventInfo).reportId
          THEN onInputReport(st, deviceOpened, infos, event, k + 1)
          ELSE LET byteIndex == Val(eventInfo).offset \div 8
                   bitPosition == Val(eventInfo).offset % 8
               IN IF byteIndex >= Len(event.data)
                  THEN [st EXCEPT !.threw = TRUE]
                  ELSE onInputReport(
                         dispatchCallbacks(st, deviceOpened, usage, 1,
                           BitIsSet(event.data[byteIndex + 1], bitPosition),
                           Val(eventInfo).controlType),
                         deviceOpened, infos, event, k + 1)

(***************************************************************************)
(* The devices the manager is constructed for: HIDDevice.collections as    *)
(* WebHID reports them.                                                    *)
(***************************************************************************)
Item(usages, reportSize, reportCount, isAbsolute, hasPreferredState, lmin, lmax) ==
  [usages |-> Def(usages), reportSize |-> Def(reportSize),
   reportCount |-> Def(reportCount), isAbsolute |-> Def(isAbsolute),
   hasPreferredState |-> Def(hasPreferredState),
   logicalMinimum |-> Def(lmin), logicalMaximum |-> Def(lmax)]

\* a constant (padding) item of n bits: it declares no usage
Pad(n) == Item(<<>>, 1, n, TRUE, FALSE, 0, 1)

Report(reportId, items) == [reportId |-> Def(reportId), items |-> Def(items)]

Collection(usagePage, inputReports, outputReports) ==
  [usagePage |-> usagePage, inputReports |-> inputReports,
   outputReports |-> outputReports]

\* one LED output report (MUTE@0, OFF_HOOK@1, RING@2, 8 bits) and one input
\* report carrying both input usages (HOOK_SWITCH@0 switch, PHONE_MUTE@1 button)
HeadsetDevice ==
  Def(<< Collection(TELEPHONY,
           Def(<< Report(2, << Item(<<Usage(TELEPHONY, HOOK_SWITCH)>>, 1, 1, TRUE, FALSE, 0, 1),
                               Item(<<Usage(TELEPHONY, PHONE_MUTE)>>, 1, 1, FALSE, TRUE, 0, 1),
                               Pad(6) >>) >>),
           Def(<< Report(1, << Item(<<Usage(LED, MUTE), Usage(LED, OFF_HOOK), Usage(LED, RING)>>,
                                    1, 3, TRUE, FALSE, 0, 1),
                               Pad(5) >>) >>)) >>)

\* two output reports (the second one 16 bits long) and the two input usages
\* in different reports, PHONE_MUTE in the second byte
TwoReportDevice ==
  Def(<< Collection(TELEPHONY,
           Def(<< Report(1, << Item(<<Usage(TELEPHONY, HOOK_SWITCH)>>, 1, 1, FALSE, TRUE, 0, 1),
                               Pad(7) >>),
                  Report(2, << Pad(8),
                               Item(<<Usage(TELEPHONY, PHONE_MUTE)>>, 1, 1, FALSE, FALSE, -1, 1),
                               Pad(7) >>) >>),
           Def(<< Report(1, << Item(<<Usage(LED, OFF_HOOK), Usage(LED, RING)>>, 1, 2, TRUE, FALSE, 0, 1),
                               Pad(6) >>),
                  Report(2, << Pad(8),
                               Item(<<Usage(TELEPHONY, RINGER)>>, 1, 1, TRUE, FALSE, 0, 1),
                               Pad(7) >>) >>)) >>)

\* an output report of 12 bits (MUTE@0, RING@9) and no input report
TwelveBitDevice ==
  Def(<< Collection(TELEPHONY,
           Undef,
           Def(<< Report(1, << Item(<<Usage(LED, MUTE)>>, 1, 1, TRUE, FALSE, 0, 1),
                               Pad(8),
                               Item(<<Usage(LED, RING)>>, 1, 1, TRUE, FALSE, 0, 1),
                               Pad(2) >>) >>)) >>)

\* the headset with its input usages declared the other way round
\* (PHONE_MUTE@0 button, HOOK_SWITCH@1 switch)
MuteFirstDevice ==
  Def(<< Collection(TELEPHONY,
           Def(<< Report(2, << Item(<<Usage(TELEPHONY, PHONE_MUTE)>>, 1, 1, FALSE, TRUE, 0, 1),
                               Item(<<Usage(TELEPHONY, HOOK_SWITCH)>>, 1, 1, TRUE, FALSE, 0, 1),
                               Pad(6) >>) >>),
           Def(<< Report(1, << Item(<<Usage(LED, MUTE), Usage(LED, OFF_HOOK), Usage(LED, RING)>>,
                                    1, 3, TRUE, FALSE, 0, 1),
                               Pad(5) >>) >>)) >>)

\* device.collections === undefined
NoCollectionsDevice == Undef

\* no collection of the TELEPHONY usage page
LedOnlyDevice ==
  Def(<< Collection(LED,
           Undef,
           Def(<< Report(1, << Item(<<Usage(LED, MUTE)>>, 1, 1, TRUE, FALSE, 0, 1),
                               Pad(7) >>) >>)) >>)

Devices ==
  {HeadsetDevice, TwoReportDevice, TwelveBitDevice, NoCollectionsDevice, LedOnlyDevice}

(***************************************************************************)
(* Inputs of the operations.                                               *)
(***************************************************************************)
\* a Map<OutputUsage, boolean> in insertion order: distinct keys
Writes ==
  {w \in UNION {[1..n -> OutputUsage \X BOOLEAN] : n \in 0..MaxWrites} :
     \A a, b \in 1..Len(w) : a # b => w[a][1] # w[b][1]}

ReportIds == {1, 2}

ByteVals == {0, 1, 2}

\* HIDInputReportEvent: a report id and the bytes of the report
Events ==
  {[reportId |-> id, data |-> d] :
     id \in ReportIds, d \in UNION {[1..n -> ByteVals] : n \in 0..MaxDataLen}}

(***************************************************************************)
(* State.                                                                  *)
(***************************************************************************)
VARIABLES
  collections,                  \* device.collections
  opened,                       \* device.opened
  pendingOpens,                 \* device.open() calls not yet settled
  inputEventInfos,
  outputEventInfos,
  inputEventObserverCallbacks,
  call,                         \* the operation that ran last, with its arguments and result
  sent,                         \* the device.sendReport calls it made, in order
  invoked,                      \* the subscriber invocations it made, in order
  threw,                        \* whether it ended with an exception
  wire                          \* the device's record of the sendReport calls, if it keeps one

vars == <<collections, opened, pendingOpens, inputEventInfos, outputEventInfos,
          inputEventObserverCallbacks, call, sent, invoked, threw, wire>>

Call(op, args, ret) == [op |-> op, args |-> args, ret |-> ret]

\* the record a handler threads through its body
Running ==
  [out |-> outputEventInfos, cbs |-> inputEventObserverCallbacks,
   sent |-> <<>>, invoked |-> <<>>, threw |-> FALSE]

\* this.device.sendReport(report.reportId, report.data) is not awaited: a
\* device that keeps a record notes the reports of the call, in the order
\* they were issued, as not yet settled (it records MaxCalls calls)
NotRecording == Undef

Recording == Def([calls |-> 0, reports |-> <<>>])

Record(w, reports) ==
  IF IsUndef(w) \/ reports = <<>> \/ Val(w).calls >= MaxCalls THEN w
  ELSE Def([calls |-> Val(w).calls + 1,
            reports |-> Val(w).reports \o
              [n \in 1..Len(reports) |->
                 [call |-> Val(w).calls + 1, reportId |-> reports[n].reportId,
                  settled |-> FALSE]]])

\* the handler's result becomes the manager's next state
FinishManager(st) ==
  /\ outputEventInfos' = st.out
  /\ inputEventObserverCallbacks' = st.cbs
  /\ sent' = st.sent
  /\ invoked' = st.invoked
  /\ threw' = st.threw

\* the handler's result becomes the next state
Finish(st) ==
  /\ FinishManager(st)
  /\ wire' = Record(wire, st.sent)

NumSubs == Len(inputEventObserverCallbacks[HOOK_SWITCH])
             + Len(inputEventObserverCallbacks[PHONE_MUTE])

\* the constructor: empty tables, parseDeviceDescriptors(), open() without
\* await (the device starts closed, so device.open() is pending), listener
Init ==
  \E d \in Devices :
    LET parsed == parseDeviceDescriptors(d)
    IN /\ collections = d
       /\ opened = FALSE
       /\ pendingOpens = 1
       /\ inputEventInfos = parsed.inputEventInfos
       /\ outputEventInfos = parsed.outputEventInfos
       /\ inputEventObserverCallbacks = [u \in InputUsage |-> <<>>]
       /\ call = Call("create", <<>>, <<>>)
       /\ sent = <<>>
       /\ invoked = <<>>
       /\ threw = FALSE
       /\ wire = NotRecording

\* open(): device.open() is called when the device is not opened
Open ==
  /\ opened \/ pendingOpens < MaxPending
  /\ pendingOpens' = IF ~opened THEN pendingOpens + 1 ELSE pendingOpens
  /\ call' = Call("open", <<>>, <<~opened>>)
  /\ Finish(Running)
  /\ UNCHANGED <<collections, opened, inputEventInfos>>

\* a pending device.open() settles: the device is open afterwards
DeviceOpenDone ==
  /\ pendingOpens > 0
  /\ pendingOpens' = pendingOpens - 1
  /\ opened' = TRUE
  /\ call' = Call("deviceOpenDone", <<>>, <<>>)
  /\ Finish(Running)
  /\ UNCHANGED <<collections, inputEventInfos>>

\* close(): device.close() is called when the device is NOT opened, where it
\* changes nothing
Close ==
  /\ call' = Call("close", <<>>, <<~opened>>)
  /\ Finish(Running)
  /\ UNCHANGED <<collections, opened, pendingOpens, inputEventInfos>>

\* the handle stops being open (the device is unplugged, or the owner of the
\* public device field closes it)
DeviceClosed ==
  /\ opened
  /\ opened' = FALSE
  /\ call' = Call("deviceClosed", <<>>, <<>>)
  /\ Finish(Running)
  /\ UNCHANGED <<collections, pendingOpens, inputEventInfos>>

Subscribe ==
  \E usage \in InputUsage, callback \in Callbacks :
    /\ NumSubs < MaxSubs
    /\ call' = Call("subscribe", <<usage, callback>>, <<>>)
    /\ Finish(subscribe(Running, usage, callback))
    /\ UNCHANGED <<collections, opened, pendingOpens, inputEventInfos>>

\* subscribe called by a client whose callbacks may subscribe in turn
SubscribeClient ==
  \E usage \in InputUsage, callback \in ClientCallbacks :
    /\ NumSubs < MaxSubs
    /\ call' = Call("subscribe", <<usage, callback>>, <<>>)
    /\ Finish(subscribe(Running, usage, callback))
    /\ UNCHANGED <<collections, opened, pendingOpens, inputEventInfos>>

Unsubscribe ==
  \E usage \in InputUsage, callback \in Callbacks :
    /\ call' = Call("unsubscribe", <<usage, callback>>, <<>>)
    /\ Finish(unsubscribe(Running, usage, callback))
    /\ UNCHANGED <<collections, opened, pendingOpens, inputEventInfos>>

SetState ==
  \E usage \in OutputUsage, val \in BOOLEAN :
    /\ call' = Call("setState", <<usage, val>>, <<>>)
    /\ Finish(setState(Running, opened, usage, val))
    /\ UNCHANGED <<collections, opened, pendingOpens, inputEventInfos>>

GetState ==
  \E usage \in OutputUsage :
    /\ call' = Call("getState", <<usage>>, getState(outputEventInfos, opened, usage))
    /\ Finish(Running)
    /\ UNCHANGED <<collections, opened, pendingOpens, inputEventInfos>>

Send ==
  \E usages \in Writes :
    /\ call' = Call("send", usages, <<>>)
    /\ Finish(send(Running, opened, usages))
    /\ UNCHANGED <<collections, opened, pendingOpens, inputEventInfos>>

\* the 'inputreport' listener; WebHID delivers input reports of an open device
InputReport ==
  \E event \in Events :
    /\ opened
    /\ call' = Call("inputreport", <<event.reportId, event.data>>, <<>>)
    /\ Finish(onInputReport(Running, opened, inputEventInfos, event, 1))
    /\ UNCHANGED <<collections, opened, pendingOpens, inputEventInfos>>

Next ==
  \/ Open
  \/ DeviceOpenDone
  \/ Close
  \/ DeviceClosed
  \/ Subscribe
  \/ Unsubscribe
  \/ SetState
  \/ GetState
  \/ Send
  \/ InputReport

\* the manager with every operation and every event
Spec == Init /\ [][Next]_vars

\* the manager of the headset, with every operation and every event
InitHeadset == Init /\ collections = HeadsetDevice

SpecHeadset == InitHeadset /\ [][Next]_vars

\* the manager driven through its output path only
NextOut ==
  \/ Open
  \/ DeviceOpenDone
  \/ Close
  \/ DeviceClosed
  \/ SetState
  \/ GetState
  \/ Send

SpecOut == Init /\ [][NextOut]_vars

\* the manager driven through its input path only (the subscribers may send)
NextIn ==
  \/ DeviceOpenDone
  \/ Subscribe
  \/ Unsubscribe
  \/ InputReport

SpecIn == Init /\ [][NextIn]_vars

\* the promise of one sendReport call settles; the manager holds no
\* reference to it
SendReportDone ==
  /\ ~IsUndef(wire)
  /\ \E n \in 1..Len(Val(wire).reports) :
       /\ ~Val(wire).reports[n].settled
       /\ wire' = Def([Val(wire) EXCEPT !.reports[n].settled = TRUE])
       /\ call' = Call("sendReportDone", <<n>>, <<>>)
  /\ FinishManager(Running)
  /\ UNCHANGED <<collections, opened, pendingOpens, inputEventInfos>>

\* the output path of a device that records the sendReport calls
WireDevices == {TwoReportDevice}

InitWire ==
  \E d \in WireDevices :
    LET parsed == parseDeviceDescriptors(d)
    IN /\ collections = d
       /\ opened = FALSE
       /\ pendingOpens = 1
       /\ inputEventInfos = parsed.inputEventInfos
       /\ outputEventInfos = parsed.outputEventInfos
       /\ inputEventObserverCallbacks = [u \in InputUsage |-> <<>>]
       /\ call = Call("create", <<>>, <<>>)
       /\ sent = <<>>
       /\ invoked = <<>>
       /\ threw = FALSE
       /\ wire = Recording

NextWire ==
  \/ DeviceOpenDone
  \/ Send
  \/ SendReportDone

SpecWire == InitWire /\ [][NextWire]_vars

\* the input path of the devices whose input report carries both usages
OrderDevices == {HeadsetDevice, MuteFirstDevice}

InitOrder ==
  \E d \in OrderDevices :
    LET parsed == parseDeviceDescriptors(d)
    IN /\ collections = d
       /\ opened = FALSE
       /\ pendingOpens = 1
       /\ inputEventInfos = parsed.inputEventInfos
       /\ outputEventInfos = parsed.outputEventInfos
       /\ inputEventObserverCallbacks = [u \in InputUsage |-> <<>>]
       /\ call = Call("create", <<>>, <<>>)
       /\ sent = <<>>
       /\ invoked = <<>>
       /\ threw = FALSE
       /\ wire = NotRecording

SpecOrder == InitOrder /\ [][NextIn]_vars

\* the input path with a client whose callbacks may subscribe
NextClient ==
  \/ DeviceOpenDone
  \/ SubscribeClient
  \/ Unsubscribe
  \/ InputReport

SpecClient == Init /\ [][NextClient]_vars

(***************************************************************************)
(* getOnOffControlType on its own: the four attributes of a report item,   *)
(* each present or absent, and the category computed for them.             *)
(***************************************************************************)
OptionalBooleans == {Undef, Def(TRUE), Def(FALSE)}

LogicalMinimums == {Undef, Def(-1), Def(0), Def(1)}

LogicalMaximums == {Undef, Def(0), Def(1), Def(2)}

ClassifiedItems ==
  {[isAbsolute |-> a, hasPreferredState |-> p,
    logicalMinimum |-> lo, logicalMaximum |-> hi] :
     a \in OptionalBooleans, p \in OptionalBooleans,
     lo \in LogicalMinimums, hi \in LogicalMaximums}

\* no manager at work: a device without collections, nothing pending
Quiet ==
  /\ collections = NoCollectionsDevice
  /\ opened = FALSE
  /\ pendingOpens = 0
  /\ inputEventInfos = NoInputInfos
  /\ outputEventInfos = NoOutputInfos
  /\ inputEventObserverCallbacks = [u \in InputUsage |-> <<>>]
  /\ sent = <<>>
  /\ invoked = <<>>
  /\ threw = FALSE
  /\ wire = NotRecording

InitClassify ==
  /\ Quiet
  /\ \E item \in ClassifiedItems : call = Call("item", <<item>>, <<>>)

Classify ==
  /\ call.op = "item"
  /\ call' = Call("getOnOffControlType", call.args,
                  <<getOnOffControlType(call.args[1])>>)
  /\ Finish(Running)
  /\ UNCHANGED <<collections, opened, pendingOpens, inputEventInfos>>

NextClassify == Classify

SpecClassify == InitClassify /\ [][NextClassify]_vars

(***************************************************************************)
(* Descriptor parsing observed through the queries: the manager is         *)
(* constructed for a telephony collection whose input reports and output   *)
(* reports are built from well-formed items, items lacking an attribute,   *)
(* items on the other usage page and padding. WebHID lists every report id *)
(* once per report type, so the reports of one list carry distinct ids.    *)
(***************************************************************************)
MaxItems == 2

InputItems ==
  {Item(<<Usage(TELEPHONY, HOOK_SWITCH)>>, 1, 1, TRUE, FALSE, 0, 1),
   Item(<<Usage(TELEPHONY, HOOK_SWITCH), Usage(TELEPHONY, PHONE_MUTE)>>,
        1, 2, FALSE, TRUE, 0, 1),
   [Item(<<Usage(TELEPHONY, HOOK_SWITCH)>>, 1, 1, TRUE, FALSE, 0, 1)
      EXCEPT !.reportSize = Undef],
   Item(<<Usage(LED, HOOK_SWITCH)>>, 1, 1, TRUE, FALSE, 0, 1),
   [Pad(3) EXCEPT !.isAbsolute = Undef],
   Pad(7)}

OutputItems ==
  {Item(<<Usage(LED, MUTE), Usage(LED, OFF_HOOK)>>, 1, 2, TRUE, FALSE, 0, 1),
   Item(<<Usage(TELEPHONY, RINGER)>>, 1, 1, TRUE, FALSE, 0, 1),
   [Item(<<Usage(LED, RING)>>, 1, 1, TRUE, FALSE, 0, 1)
      EXCEPT !.reportCount = Undef],
   Item(<<Usage(TELEPHONY, MUTE)>>, 1, 1, TRUE, FALSE, 0, 1),
   Item(<<Usage(LED, OFF_HOOK), Usage(LED, RING)>>, 1, 1, TRUE, FALSE, 0, 1),
   Pad(6)}

\* the report lists a collection may carry: absent, or one report that has
\* up to MaxItems items, or one report without a report id, or two reports
\* of one item each
ReportLists(items) ==
  {Undef}
    \cup {Def(<<Report(1, its)>>) : its \in UNION {[1..n -> items] : n \in 0..MaxItems}}
    \cup {Def(<<[reportId |-> Undef, items |-> Def(<<it>>)]>>) : it \in items}
    \cup {Def(<<Report(1, <<a>>), Report(2, <<b>>)>>) : a \in items, b \in items}

\* the two tables are parsed by separate loops: collections with input
\* reports only, with output reports only, and with one short report of each
Descriptors ==
  {Def(<<Collection(TELEPHONY, ins, Undef)>>) : ins \in ReportLists(InputItems)}
    \cup {Def(<<Collection(TELEPHONY, Undef, outs)>>) : outs \in ReportLists(OutputItems)}
    \cup {Def(<<Collection(TELEPHONY, Def(<<Report(1, <<a>>)>>), Def(<<Report(1, <<b>>)>>))>>) :
            a \in InputItems, b \in OutputItems}

InitParse ==
  \E d \in Descriptors :
    LET parsed == parseDeviceDescriptors(d)
    IN /\ collections = d
       /\ opened = FALSE
       /\ pendingOpens = 1
       /\ inputEventInfos = parsed.inputEventInfos
       /\ outputEventInfos = parsed.outputEventInfos
       /\ inputEventObserverCallbacks = [u \in InputUsage |-> <<>>]
       /\ call = Call("create", <<>>, <<>>)
       /\ sent = <<>>
       /\ invoked = <<>>
       /\ threw = FALSE
       /\ wire = NotRecording

SupportInput ==
  \E usage \in InputUsage :
    /\ call' = Call("supportInput", <<usage>>, <<supportInput(inputEventInfos, usage)>>)
    /\ Finish(Running)
    /\ UNCHANGED <<collections, opened, pendingOpens, inputEventInfos>>

SupportOutput ==
  \E usage \in OutputUsage :
    /\ call' = Call("supportOutput", <<usage>>, <<supportOutput(outputEventInfos, usage)>>)
    /\ Finish(Running)
    /\ UNCHANGED <<collections, opened, pendingOpens, inputEventInfos>>

GetControlType ==
  \E usage \in InputUsage :
    /\ call' = Call("getControlType", <<usage>>, getControlType(inputEventInfos, usage))
    /\ Finish(Running)
    /\ UNCHANGED <<collections, opened, pendingOpens, inputEventInfos>>

NextParse ==
  \/ SupportInput
  \/ SupportOutput
  \/ GetControlType

SpecParse == InitParse /\ [][NextParse]_vars

(***************************************************************************)
(* The earlier version of the manager (the second copy of the class in     *)
(* hid_telephony.ts): it keeps one generator per output usage instead of   *)
(* an entry with a cached state, and sends through sendRing,               *)
(* sendOffHookMute and send(usage, val). Its parser is the same, so a      *)
(* generator is given by the report id, offset and length of the entry.    *)
(***************************************************************************)
\* a | b on two bytes
ByteOr(a, b) ==
  LET bit(n) == IF BitIsSet(a, n) \/ BitIsSet(b, n) THEN Pow2(n) ELSE 0
  IN bit(0) + bit(1) + bit(2) + bit(3) + bit(4) + bit(5) + bit(6) + bit(7)

\* this.outputEventGenerators[usageId]: an empty buffer of length / 8 bytes
\* with reportData[byteIndex] = 1 << bitPosition when val is true
outputEventGenerator(info, val) ==
  LET reportData == Zeros(info.length \div 8)
      byteIndex == info.offset \div 8
      bitPosition == info.offset % 8
  IN [reportId |-> info.reportId,
      data |-> IF info.offset >= 0 /\ val /\ byteIndex < Len(reportData)
               THEN [reportData EXCEPT ![byteIndex + 1] = Pow2(bitPosition)]
               ELSE reportData]

\* report.data starts as a copy of offHookReport.data; for (const [i, data]
\* of muteReport.data.entries()) report.data[i] = muteReport.data[i] | data
mergeOffHookMute(offHookData, muteData) ==
  [i \in 1..Len(offHookData) |->
     IF i <= Len(muteData) THEN ByteOr(muteData[i], muteData[i]) ELSE offHookData[i]]

sendRing(st, deviceOpened, val) ==
  IF ~deviceOpened THEN st
  ELSE IF IsUndef(st.out[RING]) THEN st
  ELSE [st EXCEPT !.sent = Append(@, outputEventGenerator(Val(st.out[RING]), val))]

sendOffHookMute(st, deviceOpened, offHook, mute) ==
  IF ~deviceOpened THEN st
  ELSE LET offHookGenerator == st.out[OFF_HOOK]
           muteGenerator == st.out[MUTE]
       IN IF ~IsUndef(offHookGenerator) /\ ~IsUndef(muteGenerator)
          THEN LET offHookReport == outputEventGenerator(Val(offHookGenerator), offHook)
                   muteReport == outputEventGenerator(Val(muteGenerator), mute)
               IN IF offHookReport.reportId # muteReport.reportId
                  THEN [st EXCEPT !.sent = @ \o <<offHookReport, muteReport>>]
                  ELSE [st EXCEPT !.sent =
                          Append(@, [reportId |-> offHookReport.reportId,
                                     data |-> mergeOffHookMute(offHookReport.data,
                                                               muteReport.data)])]
          ELSE IF ~IsUndef(offHookGenerator)
          THEN [st EXCEPT !.sent =
                  Append(@, outputEventGenerator(Val(offHookGenerator), offHook))]
          ELSE IF ~IsUndef(muteGenerator)
          THEN [st EXCEPT !.sent =
                  Append(@, outputEventGenerator(Val(muteGenerator), mute))]
          ELSE st

\* send(usage, val) of the earlier version
sendSingle(st, deviceOpened, usage, val) ==
  IF ~deviceOpened THEN st
  ELSE IF IsUndef(st.out[usage]) THEN st
  ELSE [st EXCEPT !.sent = Append(@, outputEventGenerator(Val(st.out[usage]), val))]

SendRing ==
  \E val \in BOOLEAN :
    /\ call' = Call("sendRing", <<val>>, <<>>)
    /\ Finish(sendRing(Running, opened, val))
    /\ UNCHANGED <<collections, opened, pendingOpens, inputEventInfos>>

SendOffHookMute ==
  \E offHook \in BOOLEAN, mute \in BOOLEAN :
    /\ call' = Call("sendOffHookMute", <<offHook, mute>>, <<>>)
    /\ Finish(sendOffHookMute(Running, opened, offHook, mute))
    /\ UNCHANGED <<collections, opened, pendingOpens, inputEventInfos>>

SendSingle ==
  \E usage \in OutputUsage, val \in BOOLEAN :
    /\ call' = Call("sendSingle", <<usage, val>>, <<>>)
    /\ Finish(sendSingle(Running, opened, usage, val))
    /\ UNCHANGED <<collections, opened, pendingOpens, inputEventInfos>>

NextLegacy ==
  \/ DeviceOpenDone
  \/ DeviceClosed
  \/ SendRing
  \/ SendOffHookMute
  \/ SendSingle

SpecLegacy == Init /\ [][NextLegacy]_vars

(***************************************************************************)
(* Devices with several collections: up to MaxCollections collections, of  *)
(* the LED page and of the TELEPHONY page, each declaring curated usages   *)
(* under report ids of its own, or declaring no reports at all.            *)
(***************************************************************************)
MaxCollections == 2

SampleCollections ==
  {Collection(LED,
     Def(<<Report(3, <<Item(<<Usage(TELEPHONY, HOOK_SWITCH)>>, 1, 1, TRUE, FALSE, 0, 1)>>)>>),
     Def(<<Report(3, <<Item(<<Usage(LED, MUTE)>>, 1, 1, TRUE, FALSE, 0, 1)>>)>>)),
   Collection(TELEPHONY,
     Def(<<Report(1, <<Item(<<Usage(TELEPHONY, HOOK_SWITCH)>>, 1, 1, TRUE, FALSE, 0, 1)>>)>>),
     Def(<<Report(1, <<Item(<<Usage(LED, OFF_HOOK)>>, 1, 1, TRUE, FALSE, 0, 1)>>)>>)),
   Collection(TELEPHONY,
     Def(<<Report(2, <<Item(<<Usage(TELEPHONY, HOOK_SWITCH), Usage(TELEPHONY, PHONE_MUTE)>>,
                            1, 2, FALSE, TRUE, 0, 1)>>)>>),
     Def(<<Report(2, <<Item(<<Usage(LED, OFF_HOOK), Usage(TELEPHONY, RINGER)>>,
                            1, 2, TRUE, FALSE, 0, 1)>>)>>)),
   Collection(TELEPHONY,
     Def(<<Report(1, <<Item(<<Usage(TELEPHONY, PHONE_MUTE)>>, 1, 1, FALSE, TRUE, 0, 1)>>)>>),
     Undef),
   Collection(TELEPHONY,
     Undef,
     Def(<<Report(1, <<Item(<<Usage(LED, RING)>>, 1, 1, TRUE, FALSE, 0, 1)>>)>>)),
   Collection(TELEPHONY, Undef, Undef)}

CollectionLists ==
  {Def(colls) : colls \in UNION {[1..n -> SampleCollections] : n \in 1..MaxCollections}}

InitCollections ==
  \E d \in CollectionLists :
    LET parsed == parseDeviceDescriptors(d)
    IN /\ collections = d
       /\ opened = FALSE
       /\ pendingOpens = 1
       /\ inputEventInfos = parsed.inputEventInfos
       /\ outputEventInfos = parsed.outputEventInfos
       /\ inputEventObserverCallbacks = [u \in InputUsage |-> <<>>]
       /\ call = Call("create", <<>>, <<>>)
       /\ sent = <<>>
       /\ invoked = <<>>
       /\ threw = FALSE
       /\ wire = NotRecording

SpecCollections == InitCollections /\ [][NextParse]_vars

(***************************************************************************)
(* The bit codec on its own: a device whose output report and input report *)
(* (both id 1, n bytes) carry one usage at the same bit offset o. The      *)
(* buffer the output side builds for the usage is handed to the input      *)
(* side as the data of an event, with one logging subscriber listening.    *)
(***************************************************************************)
MaxBytes == 4

LoopbackDevice(o, n) ==
  Def(<< Collection(TELEPHONY,
           Def(<< Report(1, << Pad(o),
                               Item(<<Usage(TELEPHONY, HOOK_SWITCH)>>, 1, 1, TRUE, FALSE, 0, 1),
                               Pad(8 * n - o - 1) >>) >>),
           Def(<< Report(1, << Pad(o),
                               Item(<<Usage(LED, OFF_HOOK)>>, 1, 1, TRUE, FALSE, 0, 1),
                               Pad(8 * n - o - 1) >>) >>)) >>)

LoopbackDevices ==
  UNION {{LoopbackDevice(o, n) : o \in 0..(8 * n - 1)} : n \in 1..MaxBytes}

InitCodec ==
  \E d \in LoopbackDevices :
    LET parsed == parseDeviceDescriptors(d)
    IN /\ collections = d
       /\ opened = FALSE
       /\ pendingOpens = 1
       /\ inputEventInfos = parsed.inputEventInfos
       /\ outputEventInfos = parsed.outputEventInfos
       /\ inputEventObserverCallbacks = [u \in InputUsage |-> <<>>]
       /\ call = Call("create", <<>>, <<>>)
       /\ sent = <<>>
       /\ invoked = <<>>
       /\ threw = FALSE
       /\ wire = NotRecording

\* generator(), setter(true, data) or no write at all, then the decoding of
\* onInputReport on that data
Codec ==
  \E written \in BOOLEAN :
    LET info == Val(outputEventInfos[OFF_HOOK])
        data == IF written THEN setter(info, TRUE, generator(info).data)
                ELSE generator(info).data
        st == onInputReport(
                [Running EXCEPT !.cbs[HOOK_SWITCH] = <<"logInput">>],
                opened, inputEventInfos, [reportId |-> 1, data |-> data], 1)
    IN /\ call.op = "create"
       /\ call' = Call("codec", <<written, data>>,
                       IF st.invoked = <<>> THEN <<>> ELSE <<st.invoked[1].val>>)
       /\ threw' = st.threw
       /\ UNCHANGED <<collections, opened, pendingOpens, inputEventInfos,
                      outputEventInfos, inputEventObserverCallbacks, sent, invoked,
                      wire>>

NextCodec == Codec

SpecCodec == InitCodec /\ [][NextCodec]_vars

(***************************************************************************)
(* getUsagePage and getUsageId on their own: 32-bit usage values given by  *)
(* their high and low halves, among them values with the top bit set       *)
(* (vendor-defined pages 0xff00 to 0xffff).                                *)
(***************************************************************************)
HighHalves == {0, 1, LED, TELEPHONY, 12, 255, 32767, 32768, 65280, 65535}

LowHalves == {0, 1, MUTE, HOOK_SWITCH, PHONE_MUTE, RINGER, 255, 256, 32768, 65535}

InitUsage ==
  /\ Quiet
  /\ \E high \in HighHalves, low \in LowHalves :
       call = Call("usage", <<high, low>>, <<>>)

GetUsage ==
  LET usage == Usage(call.args[1], call.args[2])
  IN /\ call.op = "usage"
     /\ call' = Call("getUsage", call.args, <<getUsagePage(usage), getUsageId(usage)>>)
     /\ Finish(Running)
     /\ UNCHANGED <<collections, opened, pendingOpens, inputEventInfos>>

NextUsage == GetUsage

SpecUsage == InitUsage /\ [][NextUsage]_vars

(***************************************************************************)
(* The setter on its own: a buffer of up to MaxDataLen bytes, an offset    *)
(* inside the buffer or just past its end, and a value; the setter is      *)
(* applied once, and applied with true for two offsets in both orders.     *)
(***************************************************************************)
BufferBytes == {0, 1, 130, 255}

Buffers == UNION {[1..n -> BufferBytes] : n \in 1..MaxDataLen}

Offsets == 0..(8 * MaxDataLen)

OtherOffsets == {0, 3, 8 * MaxDataLen - 1}

InitSetter ==
  /\ Quiet
  /\ \E data \in Buffers, offset \in Offsets, val \in BOOLEAN, other \in OtherOffsets :
       call = Call("buffer", <<offset, val, data, other>>, <<>>)

Setter ==
  LET mine == [offset |-> call.args[1]]
      theirs == [offset |-> call.args[4]]
      val == call.args[2]
      data == call.args[3]
  IN /\ call.op = "buffer"
     /\ call' = Call("setter", call.args,
                     <<setter(mine, val, data),
                       setter(theirs, TRUE, setter(mine, TRUE, data)),
                       setter(mine, TRUE, setter(theirs, TRUE, data))>>)
     /\ Finish(Running)
     /\ UNCHANGED <<collections, opened, pendingOpens, inputEventInfos>>

NextSetter == Setter

SpecSetter == InitSetter /\ [][NextSetter]_vars

(***************************************************************************)
(* Vocabulary of the properties.                                           *)
(***************************************************************************)
Supported == {u \in OutputUsage : supportOutput(outputEventInfos, u)}

Cached(u) == Val(outputEventInfos[u]).state

ReportIdOf(u) == Val(outputEventInfos[u]).reportId

OffsetOf(u) == Val(outputEventInfos[u]).offset

\* bit (o mod 8) of byte floor(o / 8) of a buffer is present and set
BufferBit(data, o) ==
  /\ o \div 8 < Len(data)
  /\ (data[(o \div 8) + 1] \div Pow2(o % 8)) % 2 = 1

\* the usages a writes map names, and the value it gives one of them
Named(usages) == {usages[k][1] : k \in 1..Len(usages)}

Given(usages, u) == (CHOOSE k \in 1..Len(usages) : usages[k][1] = u)

GivenVal(usages, u) == usages[Given(usages, u)][2]

SentIds == {sent[n].reportId : n \in 1..Len(sent)}

\* the bit positions of a report of at most two bytes
ReportBits == 0..15

(***************************************************************************)
(* C1: on an open device, the report a send emits for report id R has the  *)
(* bit set at the offset of every supported output usage on R whose cached *)
(* state is true, whether or not the send names that usage.                *)
(***************************************************************************)
Orig_C1 ==
  (call.op = "send" /\ opened) =>
    \A n \in 1..Len(sent) : \A u \in Supported :
      (ReportIdOf(u) = sent[n].reportId /\ Cached(u)) =>
        BufferBit(sent[n].data, OffsetOf(u))

(***************************************************************************)
(* C2: every buffer a send passes to sendReport for report id R is the     *)
(* image of the cache: a bit is set if and only if it is the offset of a   *)
(* supported output usage on R whose cached state is true.                 *)
(***************************************************************************)
Orig_C2 ==
  (call.op = "send" /\ opened) =>
    \A n \in 1..Len(sent) : \A o \in ReportBits :
      BufferBit(sent[n].data, o) <=>
        \E u \in Supported :
          ReportIdOf(u) = sent[n].reportId /\ Cached(u) /\ OffsetOf(u) = o

(***************************************************************************)
(* C3: a send on an open device calls sendReport exactly once for each     *)
(* report id that holds a supported usage named in the writes map, and for *)
(* no other report id.                                                     *)
(***************************************************************************)
Thm_C3 ==
  (call.op = "send" /\ opened) =>
    /\ SentIds = {ReportIdOf(u) : u \in Named(call.args) \cap Supported}
    /\ \A a, b \in 1..Len(sent) : a # b => sent[a].reportId # sent[b].reportId

Wit_C3 ==
  /\ call.op = "send"
  /\ opened
  /\ Len(call.args) = 2
  /\ Named(call.args) \subseteq Supported
  /\ Len(sent) = 1

(***************************************************************************)
(* C4: while the device is not open, a send calls sendReport zero times    *)
(* and raises no error, whatever the writes map.                           *)
(***************************************************************************)
Thm_C4 == (call.op = "send" /\ ~opened) => (sent = <<>> /\ ~threw)

Wit_C4 ==
  /\ call.op = "send"
  /\ ~opened
  /\ \E u \in Named(call.args) \cap Supported : GivenVal(call.args, u)

(***************************************************************************)
(* C5: send stores the given value in the cache of every supported usage   *)
(* it names, whether or not the device is open.                            *)
(***************************************************************************)
Orig_C5 ==
  call.op = "send" =>
    \A u \in Named(call.args) \cap Supported : Cached(u) = GivenVal(call.args, u)

\* C5 as amended: a send on an open device stores the given value for every
\* supported usage it names; a send on a device that is not open leaves the
\* whole cache as it was.
Thm_C5 ==
  [][call'.op = "send" =>
       IF opened
       THEN \A u \in Named(call'.args) \cap Supported :
              Val(outputEventInfos'[u]).state = GivenVal(call'.args, u)
       ELSE outputEventInfos' = outputEventInfos]_vars

Wit_C5 ==
  /\ call.op = "send"
  /\ ~opened
  /\ \E u \in Named(call.args) \cap Supported :
       GivenVal(call.args, u) /\ ~Cached(u)

(***************************************************************************)
(* C6: getState returns undefined whenever the device is not open, and a   *)
(* period in which the device is not open does not touch the cache: the    *)
(* value cached before it is the value getState returns after it.          *)
(***************************************************************************)
Thm_C6 ==
  /\ []((call.op = "getState" /\ ~opened) => call.ret = Undef)
  /\ []((call.op = "getState" /\ opened /\ call.args[1] \in Supported) =>
          call.ret = Def(Cached(call.args[1])))
  /\ [][(~opened \/ ~opened') => outputEventInfos' = outputEventInfos]_vars

Wit_C6 ==
  /\ call.op = "getState"
  /\ ~opened
  /\ call.ret = Undef
  /\ call.args[1] \in Supported
  /\ Cached(call.args[1])

(***************************************************************************)
(* C7: on an open device getState(U) is false before any send names U, and *)
(* afterwards it is the value the most recent send naming U gave for U;    *)
(* step by step: the cache starts false, a send naming U stores its value, *)
(* and nothing but a send naming U changes U's cached state.               *)
(***************************************************************************)
StartsFalse == [](call.op = "create" => \A u \in Supported : ~Cached(u))

SendStores(u) ==
  (call'.op = "send" /\ opened /\ u \in Named(call'.args)) =>
    Val(outputEventInfos'[u]).state = GivenVal(call'.args, u)

SetStateStores(u) ==
  (call'.op = "setState" /\ opened /\ call'.args[1] = u) =>
    Val(outputEventInfos'[u]).state = call'.args[2]

ChangedBySend(u) == call'.op = "send" /\ u \in Named(call'.args)

ChangedBySetState(u) == call'.op = "setState" /\ call'.args[1] = u

Matched(reportId) ==
  {u \in InputUsage :
     supportInput(inputEventInfos, u) /\ Val(inputEventInfos[u]).reportId = reportId}

\* the event data holds the byte of every usage the event matches
Carries(reportId, data) ==
  \A u \in Matched(reportId) : Val(inputEventInfos[u]).offset \div 8 < Len(data)

RECURSIVE InvokedFor(_, _)
InvokedFor(log, u) ==
  IF log = <<>> THEN <<>>
  ELSE IF Head(log).usage = u
  THEN <<Head(log).callback>> \o InvokedFor(Tail(log), u)
  ELSE InvokedFor(Tail(log), u)

\* s is t with some elements left out, the order kept
RECURSIVE IsSubSeq(_, _)
IsSubSeq(s, t) ==
  IF s = <<>> THEN TRUE
  ELSE IF t = <<>> THEN FALSE
  ELSE IF Head(s) = Head(t) THEN IsSubSeq(Tail(s), Tail(t))
  ELSE IsSubSeq(s, Tail(t))

(***************************************************************************)
(* C8: within one input-report dispatch the callbacks of a matched usage   *)
(* run in the order in which they were subscribed, each with the decoded   *)
(* boolean and the control type recorded for the usage at parse time.      *)
(***************************************************************************)
Thm_C8 ==
  [][call'.op = "inputreport" =>
       /\ \A u \in InputUsage :
            IsSubSeq(InvokedFor(invoked', u), inputEventObserverCallbacks[u])
       /\ \A n \in 1..Len(invoked') :
            LET info == Val(inputEventInfos[invoked'[n].usage])
            IN /\ invoked'[n].controlType = info.controlType
               /\ invoked'[n].val = BufferBit(call'.args[2], info.offset)]_vars

Wit_C8 ==
  /\ call.op = "inputreport"
  /\ \E a, b \in 1..Len(invoked) :
       /\ a < b
       /\ invoked[a].usage = invoked[b].usage
       /\ invoked[a].callback # invoked[b].callback
       /\ invoked[a].val

(***************************************************************************)
(* C9: an input report with report id r, carrying the bytes of the usages  *)
(* it matches, invokes subscribers of exactly the supported input usages   *)
(* whose entry has report id r (every subscriber of theirs, once, when no  *)
(* subscriber list changes during the dispatch), and the boolean delivered *)
(* for bit offset o is true iff bit (o mod 8) of byte floor(o / 8) of the  *)
(* data is 1.                                                              *)
(***************************************************************************)
Thm_C9 ==
  [][(call'.op = "inputreport" /\ Carries(call'.args[1], call'.args[2])) =>
       /\ ~threw'
       /\ {invoked'[n].usage : n \in 1..Len(invoked')} =
            {u \in Matched(call'.args[1]) : inputEventObserverCallbacks[u] # <<>>}
       /\ inputEventObserverCallbacks' = inputEventObserverCallbacks =>
            \A u \in InputUsage :
              InvokedFor(invoked', u) =
                IF u \in Matched(call'.args[1])
                THEN inputEventObserverCallbacks[u] ELSE <<>>
       /\ \A n \in 1..Len(invoked') :
            LET o == Val(inputEventInfos[invoked'[n].usage]).offset
                byte == call'.args[2][(o \div 8) + 1]
            IN invoked'[n].val <=> ((byte \div Pow2(o % 8)) % 2 = 1)]_vars

Wit_C9 ==
  /\ call.op = "inputreport"
  /\ Matched(call.args[1]) = {PHONE_MUTE}
  /\ Val(inputEventInfos[PHONE_MUTE]).offset = 8
  /\ \E n \in 1..Len(invoked) : invoked[n].usage = PHONE_MUTE /\ invoked[n].val

(***************************************************************************)
(* C10: when a subscriber unsubscribes itself during its own invocation,   *)
(* the dispatch does not fail and every callback that was subscribed to    *)
(* that usage before the event began is still invoked for the event.       *)
(***************************************************************************)
Orig_C10 ==
  [][(/\ call'.op = "inputreport"
      /\ Carries(call'.args[1], call'.args[2])
      /\ Len(inputEventObserverCallbacks'[HOOK_SWITCH])
           < Len(inputEventObserverCallbacks[HOOK_SWITCH])) =>
       /\ ~threw'
       /\ \A j \in 1..Len(inputEventObserverCallbacks[HOOK_SWITCH]) :
            \E n \in 1..Len(invoked') :
              /\ invoked'[n].usage = HOOK_SWITCH
              /\ invoked'[n].callback = inputEventObserverCallbacks[HOOK_SWITCH][j]]_vars

(***************************************************************************)
(* Vocabulary of the subscriber lists: the number of registrations of a    *)
(* callback in a list, the callbacks a list holds.                         *)
(***************************************************************************)
RECURSIVE Count(_, _)
Count(list, callback) ==
  IF list = <<>> THEN 0
  ELSE (IF Head(list) = callback THEN 1 ELSE 0) + Count(Tail(list), callback)

Registered(u) ==
  {inputEventObserverCallbacks[u][j] : j \in 1..Len(inputEventObserverCallbacks[u])}

(***************************************************************************)
(* C11: a registration that unsubscribe has removed is not invoked by any  *)
(* later input event: an unsubscribe of a registered callback removes      *)
(* exactly one registration of it (the first) and nothing else, and an     *)
(* input event invokes a callback for a usage at most as many times as it  *)
(* is registered for that usage when the event arrives (never, once its    *)
(* last registration is gone).                                             *)
(***************************************************************************)
Thm_C11 ==
  [][/\ call'.op = "unsubscribe" =>
          LET u == call'.args[1]
              cb == call'.args[2]
              list == inputEventObserverCallbacks[u]
          IN cb \in Registered(u) =>
               /\ inputEventObserverCallbacks'[u] = splice(list, indexOf(list, cb))
               /\ Count(inputEventObserverCallbacks'[u], cb) = Count(list, cb) - 1
               /\ \A v \in InputUsage \ {u} :
                    inputEventObserverCallbacks'[v] = inputEventObserverCallbacks[v]
     /\ call'.op = "inputreport" =>
          \A u \in InputUsage : \A cb \in Callbacks :
            Count(InvokedFor(invoked', u), cb)
              <= Count(inputEventObserverCallbacks[u], cb)]_vars

\* the fire-once subscriber has run for a matching event and is detached
Wit_C11 ==
  /\ call.op = "inputreport"
  /\ \E n \in 1..Len(invoked) :
       /\ invoked[n].usage = HOOK_SWITCH
       /\ invoked[n].callback = "waitForHookSwitch"
       /\ invoked[n].val
  /\ Count(InvokedFor(invoked, HOOK_SWITCH), "waitForHookSwitch") = 1
  /\ "waitForHookSwitch" \notin Registered(HOOK_SWITCH)
  /\ Registered(HOOK_SWITCH) # {}

(***************************************************************************)
(* C12: unsubscribe of a callback that is not registered for the usage     *)
(* raises no error and leaves every subscriber list as it was.             *)
(***************************************************************************)
Thm_C12 ==
  [][(/\ call'.op = "unsubscribe"
      /\ call'.args[2] \notin Registered(call'.args[1])) =>
       /\ ~threw'
       /\ inputEventObserverCallbacks' = inputEventObserverCallbacks]_vars

\* an unsubscribe has run with the lists full: it removed nothing
Wit_C12 ==
  /\ call.op = "unsubscribe"
  /\ call.args[2] \notin Registered(call.args[1])
  /\ Len(inputEventObserverCallbacks[call.args[1]]) = MaxSubs
  /\ ~threw

(***************************************************************************)
(* C13: getOnOffControlType gives (false, false, -1, 1) OnOffButtons,      *)
(* (false, true, 0, 1) ToggleButton, (true, false, 0, 1) ToggleSwitch, and *)
(* Undefined for every other combination and for every item with one of    *)
(* the four attributes absent; no combination has two categories.          *)
(***************************************************************************)
ClassificationTable ==
  {<<FALSE, FALSE, -1, 1, "OnOffButtons">>,
   <<FALSE, TRUE, 0, 1, "ToggleButton">>,
   <<TRUE, FALSE, 0, 1, "ToggleSwitch">>}

RowsOf(item) ==
  {row \in ClassificationTable :
     /\ row[1] = Val(item.isAbsolute)
     /\ row[2] = Val(item.hasPreferredState)
     /\ row[3] = Val(item.logicalMinimum)
     /\ row[4] = Val(item.logicalMaximum)}

AnyAbsent(item) ==
  \/ IsUndef(item.isAbsolute)
  \/ IsUndef(item.hasPreferredState)
  \/ IsUndef(item.logicalMinimum)
  \/ IsUndef(item.logicalMaximum)

Thm_C13 ==
  call.op = "getOnOffControlType" =>
    LET item == call.args[1]
        type == call.ret[1]
    IN /\ type \in OnOffControlType
       /\ AnyAbsent(item) => type = "Undefined"
       /\ ~AnyAbsent(item) =>
            /\ Cardinality(RowsOf(item)) <= 1
            /\ \A row \in RowsOf(item) : type = row[5]
            /\ RowsOf(item) = {} => type = "Undefined"

Wit_C13 ==
  /\ call.op = "getOnOffControlType"
  /\ call.args[1].logicalMinimum = Def(-1)
  /\ call.ret = <<"OnOffButtons">>

(***************************************************************************)
(* C14: for a device whose collections are undefined or hold no TELEPHONY  *)
(* collection, construction fails: no device.open() is attempted, the      *)
(* device is not opened by the manager, and no operation of a manager for  *)
(* that device ever runs.                                                  *)
(***************************************************************************)
Rejected == parseDeviceDescriptors(collections).rejected

Orig_C14 == Rejected => (pendingOpens = 0 /\ ~opened /\ call.op = "create")

(***************************************************************************)
(* C15: close() calls the handle's close() exactly when the device is      *)
(* open, and the device is not open afterwards.                            *)
(***************************************************************************)
Orig_C15 ==
  [][call'.op = "close" =>
       /\ call'.ret = <<opened>>
       /\ ~opened']_vars

(***************************************************************************)
(* C16: the handle's open() is invoked only while the device is not open   *)
(* and no earlier open() of the manager, the constructor's included, is    *)
(* still pending.                                                          *)
(***************************************************************************)
Orig_C16 ==
  [][(call'.op = "open" /\ call'.ret = <<TRUE>>) =>
       (~opened /\ pendingOpens = 0)]_vars

(***************************************************************************)
(* Vocabulary of the descriptor: the reports and items the parser accepts, *)
(* and the curated usages they declare under their own usage page.         *)
(***************************************************************************)
TelephonyReports(field) ==
  IF IsUndef(collections) THEN <<>>
  ELSE LET found == findTelephonyCollection(Val(collections), 1)
       IN IF IsUndef(found) \/ IsUndef(Val(found)[field]) THEN <<>>
          ELSE Val(Val(found)[field])

HasIdAndItems(report) == ~IsUndef(report.items) /\ ~IsUndef(report.reportId)

WellFormedInputItem(item) ==
  /\ ~IsUndef(item.usages)
  /\ ~IsUndef(item.reportSize)
  /\ ~IsUndef(item.reportCount)
  /\ ~IsUndef(item.isAbsolute)

WellFormedOutputItem(item) ==
  /\ ~IsUndef(item.usages)
  /\ ~IsUndef(item.reportSize)
  /\ ~IsUndef(item.reportCount)

Lists(item, usage) ==
  \E i \in 1..Len(Val(item.usages)) : Val(item.usages)[i] = usage

OwnPage(u) == IF u \in {OFF_HOOK, RING, MUTE} THEN LED ELSE TELEPHONY

DeclaresInput(u) ==
  LET reports == TelephonyReports("inputReports")
  IN \E r \in 1..Len(reports) :
       /\ HasIdAndItems(reports[r])
       /\ \E k \in 1..Len(Val(reports[r].items)) :
            /\ WellFormedInputItem(Val(reports[r].items)[k])
            /\ Lists(Val(reports[r].items)[k], Usage(TELEPHONY, u))

DeclaresOutput(u) ==
  LET reports == TelephonyReports("outputReports")
  IN \E r \in 1..Len(reports) :
       /\ HasIdAndItems(reports[r])
       /\ \A k \in 1..Len(Val(reports[r].items)) :
            WellFormedOutputItem(Val(reports[r].items)[k])
       /\ \E k \in 1..Len(Val(reports[r].items)) :
            Lists(Val(reports[r].items)[k], Usage(OwnPage(u), u))

(***************************************************************************)
(* C17: for a curated usage that the telephony collection does not declare *)
(* in a report and item the parser accepts, supportInput and supportOutput *)
(* return false and getControlType returns undefined, without an error;    *)
(* and supportOutput(U) is true exactly when an output entry exists for U. *)
(***************************************************************************)
Orig_C17 ==
  /\ ~threw
  /\ (call.op = "supportInput" /\ ~DeclaresInput(call.args[1])) =>
       call.ret = <<FALSE>>
  /\ (call.op = "getControlType" /\ ~DeclaresInput(call.args[1])) =>
       call.ret = Undef
  /\ (call.op = "supportOutput" /\ ~DeclaresOutput(call.args[1])) =>
       call.ret = <<FALSE>>
  /\ call.op = "supportOutput" =>
       (call.ret = <<TRUE>> <=> ~IsUndef(outputEventInfos[call.args[1]]))

(***************************************************************************)
(* C18: the offset tables are read-only after construction: whatever       *)
(* operations and input events have run, supportInput, supportOutput and   *)
(* getControlType answer as they did right after construction, and every   *)
(* entry holds the report id, bit offset and report length it was parsed   *)
(* with.                                                                   *)
(***************************************************************************)
AsConstructed == parseDeviceDescriptors(collections)

Thm_C18 ==
  /\ inputEventInfos = AsConstructed.inputEventInfos
  /\ \A u \in InputUsage :
       /\ supportInput(inputEventInfos, u)
            = supportInput(AsConstructed.inputEventInfos, u)
       /\ getControlType(inputEventInfos, u)
            = getControlType(AsConstructed.inputEventInfos, u)
  /\ \A u \in OutputUsage :
       /\ supportOutput(outputEventInfos, u)
            = supportOutput(AsConstructed.outputEventInfos, u)
       /\ supportOutput(outputEventInfos, u) =>
            LET now == Val(outputEventInfos[u])
                then == Val(AsConstructed.outputEventInfos[u])
            IN /\ now.reportId = then.reportId
               /\ now.offset = then.offset
               /\ now.length = then.length

\* an input event has run a subscriber that sent a report, and an output
\* usage without an entry stands beside a cached-true one
Wit_C18 ==
  /\ call.op = "inputreport"
  /\ invoked # <<>>
  /\ sent # <<>>
  /\ \E u \in Supported : Cached(u)
  /\ \E u \in OutputUsage : u \notin Supported

(***************************************************************************)
(* C19: bit codec round trip: for every bit offset o inside a zero-filled  *)
(* buffer, the bit the output setter writes at o is read back as true by   *)
(* the input decoder, and an untouched zero buffer reads false at o; the   *)
(* written buffer has bit (o mod 8) of byte floor(o / 8) set and no other. *)
(***************************************************************************)
Thm_C19 ==
  call.op = "codec" =>
    LET o == Val(inputEventInfos[HOOK_SWITCH]).offset
        written == call.args[1]
        data == call.args[2]
    IN /\ ~threw
       /\ Val(outputEventInfos[OFF_HOOK]).offset = o
       /\ o \div 8 < Len(data)
       /\ call.ret = <<written>>
       /\ \A b \in 1..Len(data) :
            data[b] = IF written /\ b = (o \div 8) + 1 THEN Pow2(o % 8) ELSE 0

\* a written bit in the middle of the second byte is read back
Wit_C19 ==
  /\ call.op = "codec"
  /\ Val(inputEventInfos[HOOK_SWITCH]).offset = 13
  /\ call.args[1]
  /\ call.ret = <<TRUE>>

(***************************************************************************)
(* C20: always deliver: an input event whose report id matches a supported *)
(* usage invokes every subscriber that usage has when the event arrives,   *)
(* once and in order, whatever the control type of the usage and whatever  *)
(* the event before it carried.                                            *)
(***************************************************************************)
Orig_C20 ==
  [][(call'.op = "inputreport" /\ Carries(call'.args[1], call'.args[2])) =>
       /\ ~threw'
       /\ \A u \in Matched(call'.args[1]) :
            InvokedFor(invoked', u) = inputEventObserverCallbacks[u]]_vars

(***************************************************************************)
(* Vocabulary of the parsed reports.                                       *)
(***************************************************************************)
InputReports == TelephonyReports("inputReports")

OutputReports == TelephonyReports("outputReports")

ItemsOf(report) == Val(report.items)

\* an output report with an item that lacks usages, reportSize or reportCount
HasMalformedItem(report) ==
  \E k \in 1..Len(ItemsOf(report)) : ~WellFormedOutputItem(ItemsOf(report)[k])

(***************************************************************************)
(* C21: output parsing is all-or-nothing per report: a report with an item *)
(* that lacks usages, reportSize or reportCount registers no entry, not     *)
(* even for the well-formed items before that item; the usages of the      *)
(* other reports are registered, and parsing does not throw.               *)
(***************************************************************************)
Thm_C21 ==
  /\ ~Rejected
  /\ \A r \in 1..Len(OutputReports) :
       LET report == OutputReports[r]
       IN HasIdAndItems(report) =>
            IF HasMalformedItem(report)
            THEN \A u \in OutputUsage :
                   supportOutput(outputEventInfos, u) =>
                     Val(outputEventInfos[u]).reportId # Val(report.reportId)
            ELSE \A u \in OutputUsage :
                   (\E k \in 1..Len(ItemsOf(report)) :
                      Lists(ItemsOf(report)[k], Usage(OwnPage(u), u))) =>
                     supportOutput(outputEventInfos, u)

\* a well-formed item that lists (LED, MUTE) stands before an item without
\* reportCount: MUTE has no entry
Wit_C21 ==
  /\ Len(OutputReports) = 1
  /\ HasIdAndItems(OutputReports[1])
  /\ Len(ItemsOf(OutputReports[1])) = 2
  /\ WellFormedOutputItem(ItemsOf(OutputReports[1])[1])
  /\ Lists(ItemsOf(OutputReports[1])[1], Usage(LED, MUTE))
  /\ ~WellFormedOutputItem(ItemsOf(OutputReports[1])[2])
  /\ ~supportOutput(outputEventInfos, MUTE)

(***************************************************************************)
(* Vocabulary of the input declarations: the occurrences <<r, k, i>> of a  *)
(* usage (report r, item k, usage index i) in the items the parser reads,  *)
(* their declaration order, and the bits the parser has walked over before *)
(* an item.                                                                *)
(***************************************************************************)
OccurrencesIn(reports, r, wanted) ==
  IF ~HasIdAndItems(reports[r]) THEN {}
  ELSE UNION {
         IF ~WellFormedInputItem(ItemsOf(reports[r])[k]) THEN {}
         ELSE {<<r, k, i>> :
                 i \in {h \in 1..Len(Val(ItemsOf(reports[r])[k].usages)) :
                          Val(ItemsOf(reports[r])[k].usages)[h] = wanted}} :
         k \in 1..Len(ItemsOf(reports[r]))}

InputOccurrences(u) ==
  UNION {OccurrencesIn(InputReports, r, Usage(TELEPHONY, u)) :
           r \in 1..Len(InputReports)}

ComesAfter(a, b) ==
  \/ a[1] > b[1]
  \/ a[1] = b[1] /\ a[2] > b[2]
  \/ a[1] = b[1] /\ a[2] = b[2] /\ a[3] > b[3]

LastOccurrence(occurrences) ==
  CHOOSE o \in occurrences : \A p \in occurrences : p = o \/ ComesAfter(o, p)

\* the bits of the items before item k that the input parser accepts
RECURSIVE Walked(_, _)
Walked(items, k) ==
  IF k = 1 THEN 0
  ELSE Walked(items, k - 1)
         + (IF WellFormedInputItem(items[k - 1])
            THEN Val(items[k - 1].reportCount) * Val(items[k - 1].reportSize)
            ELSE 0)

\* the entry the parser records for one occurrence
EntryOf(o) ==
  LET report == InputReports[o[1]]
      item == ItemsOf(report)[o[2]]
  IN [reportId |-> Val(report.reportId),
      offset |-> Walked(ItemsOf(report), o[2]) + (o[3] - 1) * Val(item.reportSize),
      controlType |-> getOnOffControlType(item)]

(***************************************************************************)
(* C22: last write wins for inputs: an input usage the collection declares *)
(* once or several times has one entry, and the entry carries the report   *)
(* id, offset and control type of the occurrence that comes last in        *)
(* declaration order.                                                      *)
(***************************************************************************)
Thm_C22 ==
  \A u \in InputUsage :
    InputOccurrences(u) # {} =>
      /\ supportInput(inputEventInfos, u)
      /\ Val(inputEventInfos[u]) = EntryOf(LastOccurrence(InputOccurrences(u)))

\* HOOK_SWITCH is declared by a switch item and then by a button item
Wit_C22 ==
  /\ Cardinality(InputOccurrences(HOOK_SWITCH)) = 2
  /\ Len(InputReports) = 1
  /\ getOnOffControlType(ItemsOf(InputReports[1])[1]) = "ToggleSwitch"
  /\ Val(inputEventInfos[HOOK_SWITCH]).controlType = "ToggleButton"
  /\ Val(inputEventInfos[HOOK_SWITCH]).offset = 1

\* the bits of the items before item k that declare reportSize and reportCount
RECURSIVE Consumed(_, _)
Consumed(items, k) ==
  IF k = 1 THEN 0
  ELSE Consumed(items, k - 1)
         + (IF ~IsUndef(items[k - 1].reportSize) /\ ~IsUndef(items[k - 1].reportCount)
            THEN Val(items[k - 1].reportCount) * Val(items[k - 1].reportSize)
            ELSE 0)

(***************************************************************************)
(* C23: the input cursor tracks physical bit consumption: the offset of an *)
(* input entry recorded from usage index i of an item is the sum of        *)
(* reportCount * reportSize over every preceding item of the report that   *)
(* declares both (whatever else that item declares), plus i * reportSize.  *)
(***************************************************************************)
Orig_C23 ==
  \A u \in InputUsage :
    supportInput(inputEventInfos, u) =>
      \E o \in InputOccurrences(u) :
        LET report == InputReports[o[1]]
            item == ItemsOf(report)[o[2]]
        IN /\ Val(inputEventInfos[u]).reportId = Val(report.reportId)
           /\ Val(inputEventInfos[u]).offset =
                Consumed(ItemsOf(report), o[2]) + (o[3] - 1) * Val(item.reportSize)

(***************************************************************************)
(* C24: an output entry exists for a curated output usage only when the    *)
(* descriptor declares the usage under its own page: (LED, OFF_HOOK),      *)
(* (LED, RING), (LED, MUTE) or (TELEPHONY, RINGER); the same usage id      *)
(* under the other page registers nothing.                                 *)
(***************************************************************************)
Orig_C24 ==
  \A u \in OutputUsage :
    supportOutput(outputEventInfos, u) =>
      \E r \in 1..Len(OutputReports) :
        /\ HasIdAndItems(OutputReports[r])
        /\ \E k \in 1..Len(ItemsOf(OutputReports[r])) :
             /\ WellFormedOutputItem(ItemsOf(OutputReports[r])[k])
             /\ Lists(ItemsOf(OutputReports[r])[k], Usage(OwnPage(u), u))

\* a well-formed input item none of whose usages is on the TELEPHONY page
OffPageItem(item) ==
  /\ WellFormedInputItem(item)
  /\ Val(item.usages) # <<>>
  /\ \A i \in 1..Len(Val(item.usages)) : getUsagePage(Val(item.usages)[i]) # TELEPHONY

(***************************************************************************)
(* C25: input parsing ignores the usages of other pages: every input entry *)
(* is the entry of an occurrence of its usage on the TELEPHONY page, also  *)
(* when an item of another page carries the same usage id, and the bits of *)
(* such an item that precedes the occurrence are counted in its offset.    *)
(***************************************************************************)
Thm_C25 ==
  \A u \in InputUsage :
    supportInput(inputEventInfos, u) =>
      \E o \in InputOccurrences(u) :
        LET items == ItemsOf(InputReports[o[1]])
        IN /\ Val(inputEventInfos[u]) = EntryOf(o)
           /\ \A j \in 1..(o[2] - 1) :
                OffPageItem(items[j]) =>
                  Val(inputEventInfos[u]).offset >=
                    Val(items[j].reportCount) * Val(items[j].reportSize)

\* (LED, 0x20) comes first and registers nothing; HOOK_SWITCH follows it at bit 1
Wit_C25 ==
  /\ Len(InputReports) = 1
  /\ Len(ItemsOf(InputReports[1])) = 2
  /\ OffPageItem(ItemsOf(InputReports[1])[1])
  /\ Lists(ItemsOf(InputReports[1])[1], Usage(LED, HOOK_SWITCH))
  /\ supportInput(inputEventInfos, HOOK_SWITCH)
  /\ Val(inputEventInfos[HOOK_SWITCH]).offset = 1

\* the report bit length the table holds for a report id
LengthsOf(reportId) ==
  {Val(outputEventInfos[u]).length : u \in {v \in Supported : ReportIdOf(v) = reportId}}

(***************************************************************************)
(* C26: an output report whose bit length is not a multiple of 8 is not    *)
(* encoded: no report is emitted for its report id with a buffer of        *)
(* floor(length / 8) bytes; the send fails or the usages are unsupported.  *)
(***************************************************************************)
Orig_C26 ==
  \A n \in 1..Len(sent) :
    \A length \in LengthsOf(sent[n].reportId) :
      length % 8 # 0 => (threw \/ Len(sent[n].data) # length \div 8)

(***************************************************************************)
(* C27: after parsing, any two output entries with the same report id hold *)
(* the same report bit length, so the buffer send builds for a report id   *)
(* is the same whichever of its usages comes first in the writes map.      *)
(***************************************************************************)
Thm_C27 ==
  \A u, v \in Supported :
    ReportIdOf(u) = ReportIdOf(v) =>
      /\ Val(outputEventInfos[u]).length = Val(outputEventInfos[v]).length
      /\ generator(Val(outputEventInfos[u])) = generator(Val(outputEventInfos[v]))

\* three usages of one report at the offsets 0, 1 and 2 share the length 3
Wit_C27 ==
  /\ Supported = {MUTE, OFF_HOOK, RINGER}
  /\ {ReportIdOf(u) : u \in Supported} = {1}
  /\ {OffsetOf(u) : u \in Supported} = {0, 1, 2}
  /\ LengthsOf(1) = {3}

(***************************************************************************)
(* Vocabulary of the cache writers: the step changes the entry of an       *)
(* output usage; the step is a send by the client, a send by a subscriber  *)
(* during an input event, or a setState.                                   *)
(***************************************************************************)
EntryChanges(u) == outputEventInfos'[u] # outputEventInfos[u]

SendRan == call'.op = "send" \/ (call'.op = "inputreport" /\ sent' # <<>>)

SetStateRan(u) == call'.op = "setState" /\ call'.args[1] = u

\* nothing but the cached state of an entry differs after the step
OnlyStateDiffers(u) ==
  /\ supportOutput(outputEventInfos, u)
  /\ supportOutput(outputEventInfos', u)
  /\ [Val(outputEventInfos'[u]) EXCEPT !.state = Cached(u)] = Val(outputEventInfos[u])

Orig_C29 ==
  [][(call'.op = "inputreport" /\ Carries(call'.args[1], call'.args[2])) =>
       \A u \in Matched(call'.args[1]) : \A callback \in ClientCallbacks :
         Count(InvokedFor(invoked', u), callback)
           <= Count(inputEventObserverCallbacks[u], callback)]_vars

(***************************************************************************)
(* C30: subscribe appends and unsubscribe removes only the first matching  *)
(* entry, keeping the order of the others; a callback subscribed k times   *)
(* to a usage is invoked k times by each event that matches the usage.     *)
(***************************************************************************)
Orig_C30 ==
  [][/\ call'.op = "subscribe" =>
          inputEventObserverCallbacks' =
            [inputEventObserverCallbacks EXCEPT
               ![call'.args[1]] = Append(@, call'.args[2])]
     /\ call'.op = "unsubscribe" =>
          LET list == inputEventObserverCallbacks[call'.args[1]]
              first == indexOf(list, call'.args[2])
          IN inputEventObserverCallbacks' =
               [inputEventObserverCallbacks EXCEPT
                  ![call'.args[1]] = IF first = 0 THEN list ELSE splice(list, first)]
     /\ (call'.op = "inputreport" /\ Carries(call'.args[1], call'.args[2])) =>
          \A u \in Matched(call'.args[1]) : \A callback \in Callbacks :
            Count(InvokedFor(invoked', u), callback)
              = Count(inputEventObserverCallbacks[u], callback)]_vars

(***************************************************************************)
(* C31: when one input event matches both input usages, the dispatch       *)
(* follows the order of INPUT_USAGES: every invocation for HOOK_SWITCH     *)
(* comes before every invocation for PHONE_MUTE, whichever usage was       *)
(* subscribed first and whichever the descriptor declares first.           *)
(***************************************************************************)
Thm_C31 ==
  call.op = "inputreport" =>
    \A a, b \in 1..Len(invoked) :
      (a < b /\ invoked[b].usage = HOOK_SWITCH) => invoked[a].usage = HOOK_SWITCH

\* PHONE_MUTE is declared first, and its subscriber is invoked second
Wit_C31 ==
  /\ collections = MuteFirstDevice
  /\ call.op = "inputreport"
  /\ Len(invoked) = 2
  /\ invoked[1].usage = HOOK_SWITCH
  /\ invoked[2].usage = PHONE_MUTE

(***************************************************************************)
(* Vocabulary of the report order: the report ids of the supported usages  *)
(* of a writes map, each at its first appearance; the recorded reports.    *)
(***************************************************************************)
RECURSIVE FirstIds(_, _, _)
FirstIds(usages, k, ids) ==
  IF k > Len(usages) THEN ids
  ELSE IF usages[k][1] \in Supported
          /\ ~\E n \in 1..Len(ids) : ids[n] = ReportIdOf(usages[k][1])
  THEN FirstIds(usages, k + 1, Append(ids, ReportIdOf(usages[k][1])))
  ELSE FirstIds(usages, k + 1, ids)

Recorded == Val(wire).reports

\* the step is a send whose reports the device has recorded
RecordedSend == call'.op = "send" /\ wire' # wire

(***************************************************************************)
(* C32: sendReport calls are issued in call order and are not awaited: the *)
(* reports of an earlier send are all issued before any report of a later  *)
(* send, the reports of one send are issued in the order in which their    *)
(* report ids first appear in the writes map, and send returns while its   *)
(* reports, and those of earlier calls, may still be unsettled.            *)
(***************************************************************************)
Thm_C32 ==
  [][/\ \A a, b \in 1..Len(Val(wire').reports) :
          a < b => Val(wire').reports[a].call <= Val(wire').reports[b].call
     /\ (call'.op = "send" /\ opened) =>
          [n \in 1..Len(sent') |-> sent'[n].reportId] = FirstIds(call'.args, 1, <<>>)
     /\ RecordedSend =>
          /\ SubSeq(Val(wire').reports, 1, Len(Recorded)) = Recorded
          /\ [n \in 1..Len(sent') |->
                Val(wire').reports[Len(Recorded) + n].reportId]
               = [n \in 1..Len(sent') |-> sent'[n].reportId]
          /\ \A n \in (Len(Recorded) + 1)..Len(Val(wire').reports) :
               ~Val(wire').reports[n].settled]_vars

\* a second send has returned with its two reports (ids 2 then 1, the order
\* of the map) unsettled, while the report of the first send is unsettled too
Wit_C32 ==
  /\ call.op = "send"
  /\ Len(call.args) = 2
  /\ call.args[1][1] = RINGER
  /\ Val(wire).calls = 2
  /\ [n \in 1..Len(Recorded) |-> Recorded[n].call] = <<1, 2, 2>>
  /\ [n \in 1..Len(Recorded) |-> Recorded[n].reportId] = <<1, 2, 1>>
  /\ \A n \in 1..Len(Recorded) : ~Recorded[n].settled

(***************************************************************************)
(* C33: the output bit writer never clears a bit and touches only its own  *)
(* bit: with the value false it leaves the buffer as it is, with the value *)
(* true at offset o it changes no bit but bit (o mod 8) of byte            *)
(* floor(o / 8), which it sets, and two writes of true give the same       *)
(* buffer in either order.                                                 *)
(***************************************************************************)
Thm_C33 ==
  call.op = "setter" =>
    LET o == call.args[1]
        val == call.args[2]
        data == call.args[3]
        out == call.ret[1]
    IN /\ Len(out) = Len(data)
       /\ ~val => out = data
       /\ \A b \in 1..Len(data) : out[b] \in 0..255
       /\ \A p \in 0..(8 * Len(data) - 1) :
            /\ BufferBit(data, p) => BufferBit(out, p)
            /\ p # o => (BufferBit(out, p) <=> BufferBit(data, p))
            /\ (p = o /\ val) => BufferBit(out, p)
       /\ call.ret[2] = call.ret[3]

\* bit 3 of the second byte is set in a buffer that holds other set bits
Wit_C33 ==
  /\ call.op = "setter"
  /\ call.args = <<11, TRUE, <<130, 1>>, 0>>
  /\ call.ret[1] = <<130, 9>>
  /\ call.ret[2] = <<131, 9>>

(***************************************************************************)
(* C34: for every unsigned 32-bit usage value v, getUsagePage(v) is        *)
(* floor(v / 65536) and getUsageId(v) is v mod 65536, both non-negative,   *)
(* so that the pair gives v back, also when the top bit of v is set.       *)
(***************************************************************************)
Thm_C34 ==
  call.op = "getUsage" =>
    LET high == call.args[1]
        low == call.args[2]
        page == call.ret[1]
        id == call.ret[2]
    IN /\ page = high
       /\ id = low
       /\ page \in 0..65535
       /\ id \in 0..65535
       /\ Usage(page, id) = Usage(high, low)

\* 0xff000001: page 0xff00 has the top bit set
Wit_C34 ==
  /\ call.op = "getUsage"
  /\ call.args = <<65280, 1>>
  /\ call.ret = <<65280, 1>>

(***************************************************************************)
(* C35: send is idempotent on state: a send that repeats the writes map of *)
(* the send before it, on an open device, leaves the cache as the first    *)
(* call left it and emits the same reports with the same buffers.          *)
(***************************************************************************)
Thm_C35 ==
  [][(/\ call.op = "send"
      /\ call'.op = "send"
      /\ call'.args = call.args
      /\ opened) =>
       /\ outputEventInfos' = outputEventInfos
       /\ sent' = sent
       /\ threw' = threw]_vars

\* the map of the test application has been sent and has emitted a report
Wit_C35 ==
  /\ call = Call("send", << <<OFF_HOOK, TRUE>>, <<MUTE, FALSE>> >>, <<>>)
  /\ opened
  /\ {OFF_HOOK, MUTE} \subseteq Supported
  /\ Cached(OFF_HOOK)
  /\ ~Cached(MUTE)
  /\ Len(sent) = 1
  /\ \E b \in 1..Len(sent[1].data) : sent[1].data[b] # 0

(***************************************************************************)
(* C36: no queueing and no replay: a write given to send while the device  *)
(* is not open is never transmitted later, opening the device emits no     *)
(* report by itself, and every sendReport call is made by a send that runs *)
(* while the device is open. Until the open started by the constructor     *)
(* has completed, nothing is cached, emitted or on record.                 *)
(***************************************************************************)
NothingKept ==
  /\ sent = <<>>
  /\ Recorded = <<>>
  /\ \A u \in Supported : ~Cached(u)

Thm_C36 ==
  /\ ~opened => NothingKept
  /\ call.op = "deviceOpenDone" => NothingKept
  /\ sent # <<>> => (call.op = "send" /\ opened)
  /\ Recorded # <<>> => opened

\* right after create(), before the device is open, send was given a true
\* value for a supported usage
Wit_C36 ==
  /\ call.op = "send"
  /\ ~opened
  /\ pendingOpens = 1
  /\ wire = Recording
  /\ \E k \in 1..Len(call.args) :
       call.args[k][1] \in Supported /\ call.args[k][2]

(***************************************************************************)
(* C37: after parsing, the bit offset of every output entry is less than   *)
(* the bit length of its report, also when an item lists more usages than  *)
(* its reportCount.                                                        *)
(***************************************************************************)
Orig_C37 ==
  \A u \in Supported : OffsetOf(u) < Val(outputEventInfos[u]).length

(***************************************************************************)
(* Vocabulary of the collections: the position of the first collection of  *)
(* the TELEPHONY page, and the usages a collection lists in a report list. *)
(***************************************************************************)
TelephonyPositions ==
  IF IsUndef(collections) THEN {}
  ELSE {c \in 1..Len(Val(collections)) : Val(collections)[c].usagePage = TELEPHONY}

FirstTelephony ==
  Val(collections)[CHOOSE c \in TelephonyPositions : \A d \in TelephonyPositions : c <= d]

ListedIn(reports, pages, id) ==
  /\ ~IsUndef(reports)
  /\ \E r \in 1..Len(Val(reports)) :
       \E k \in 1..Len(ItemsOf(Val(reports)[r])) :
         \E page \in pages : Lists(ItemsOf(Val(reports)[r])[k], Usage(page, id))

(***************************************************************************)
(* C38: only the first collection of the TELEPHONY page is parsed: the     *)
(* tables are those of that collection alone, usages declared in any other *)
(* collection create no entry, and a table whose report list the first     *)
(* TELEPHONY collection lacks stays empty, without an error.               *)
(***************************************************************************)
Thm_C38 ==
  TelephonyPositions # {} =>
    LET alone == parseDeviceDescriptors(Def(<<FirstTelephony>>))
    IN /\ ~Rejected
       /\ inputEventInfos = alone.inputEventInfos
       /\ outputEventInfos = alone.outputEventInfos
       /\ \A u \in InputUsage :
            supportInput(inputEventInfos, u) =>
              ListedIn(FirstTelephony.inputReports, {TELEPHONY}, u)
       /\ \A u \in OutputUsage :
            supportOutput(outputEventInfos, u) =>
              ListedIn(FirstTelephony.outputReports, {TELEPHONY, LED}, u)
       /\ IsUndef(FirstTelephony.inputReports) => inputEventInfos = NoInputInfos
       /\ IsUndef(FirstTelephony.outputReports) => outputEventInfos = NoOutputInfos

\* the first TELEPHONY collection has no output reports and comes before a
\* TELEPHONY collection that declares input and output usages
Wit_C38 ==
  /\ Len(Val(collections)) = 2
  /\ TelephonyPositions = {1, 2}
  /\ IsUndef(Val(collections)[1].outputReports)
  /\ ListedIn(Val(collections)[2].outputReports, {TELEPHONY}, RINGER)
  /\ ListedIn(Val(collections)[2].inputReports, {TELEPHONY}, HOOK_SWITCH)
  /\ outputEventInfos = NoOutputInfos
  /\ ~supportInput(inputEventInfos, HOOK_SWITCH)
  /\ supportInput(inputEventInfos, PHONE_MUTE)

\* a writes map without the usages that have no entry
RECURSIVE SupportedOnly(_)
SupportedOnly(usages) ==
  IF usages = <<>> THEN <<>>
  ELSE IF Head(usages)[1] \in Supported
  THEN <<Head(usages)>> \o SupportedOnly(Tail(usages))
  ELSE SupportedOnly(Tail(usages))

(***************************************************************************)
(* C39: an unsupported output usage in a writes map is skipped without     *)
(* effect on the rest of the call: it gets no cache entry and no report,   *)
(* supportOutput stays false for it, the supported usages of the map are   *)
(* cached and transmitted as if it were absent, and a map of unsupported   *)
(* usages only emits nothing.                                              *)
(***************************************************************************)
Thm_C39 ==
  [][(call'.op = "send" /\ opened) =>
       LET without == send(Running, opened, SupportedOnly(call'.args))
       IN /\ outputEventInfos' = without.out
          /\ sent' = without.sent
          /\ ~threw'
          /\ \A u \in OutputUsage \ Supported :
               ~supportOutput(outputEventInfos', u)
          /\ \A u \in Supported \cap Named(call'.args) :
               Val(outputEventInfos'[u]).state = GivenVal(call'.args, u)
          /\ {sent'[n].reportId : n \in 1..Len(sent')}
               = {ReportIdOf(u) : u \in Supported \cap Named(call'.args)}]_vars

\* the map names an unsupported usage first and a supported one after it,
\* which is cached and transmitted
Wit_C39 ==
  /\ call.op = "send"
  /\ opened
  /\ Len(call.args) = 2
  /\ call.args[1][1] \notin Supported
  /\ call.args[2][1] \in Supported
  /\ call.args[2][2]
  /\ Cached(call.args[2][1])
  /\ Len(sent) = 1
  /\ sent[1].reportId = ReportIdOf(call.args[2][1])
  /\ BufferBit(sent[1].data, OffsetOf(call.args[2][1]))

(***************************************************************************)
(* C40: in the earlier version, sendOffHookMute(offHook, mute) on an open  *)
(* device whose OFF_HOOK and MUTE share a report id sends exactly one      *)
(* report, and it carries both states: the OFF_HOOK bit is set iff offHook *)
(* and the MUTE bit is set iff mute.                                       *)
(***************************************************************************)
Orig_C40 ==
  (/\ call.op = "sendOffHookMute"
   /\ opened
   /\ {OFF_HOOK, MUTE} \subseteq Supported
   /\ ReportIdOf(OFF_HOOK) = ReportIdOf(MUTE)) =>
    /\ Len(sent) = 1
    /\ sent[1].reportId = ReportIdOf(OFF_HOOK)
    /\ BufferBit(sent[1].data, OffsetOf(OFF_HOOK)) <=> call.args[1]
    /\ BufferBit(sent[1].data, OffsetOf(MUTE)) <=> call.args[2]

====
